---- MODULE Spec2Model ----
(***************************************************************************)
(* Model of the experiment execution engine of llm-speedway:              *)
(* harness/run_experiment.py (run_single_experiment, _handle_signal,      *)
(* main), harness/service.py (ServiceManager), harness/test_runner.py     *)
(* (SuiteRunner.run), harness/results.py (save_run_result) and            *)
(* harness/timers.py (ExperimentTimer).                                   *)
(*                                                                         *)
(* One experiment process is modelled.  `pc` is the position of the main  *)
(* flow inside run_single_experiment/main; `hstack` is the stack of       *)
(* _handle_signal invocations that interrupt it (Python runs a signal     *)
(* handler in the main thread between two bytecodes, also while an        *)
(* earlier handler invocation is still running).  The service's process   *)
(* group (the run.sh leader and a possible descendant) is the             *)
(* environment.                                                            *)
(*                                                                         *)
(* Components with a life of their own have their own variables and        *)
(* specification; in every specification the others are parked in their   *)
(* initial state:                                                          *)
(*   Spec         the experiment process, as above                         *)
(*   SpecRunner   one call of run_with_streaming (harness/agents/base.py)  *)
(*   SpecHealth   one call of ServiceManager._wait_for_ready, timed       *)
(*   SpecManager  a ServiceManager whose start and stop are called         *)
(*                directly, stop more than once                            *)
(*   SpecSuite    SuiteRunner.run as a function of what the call meets     *)
(*   SpecSched    start_experiment of harness/orchestrate.py, launches     *)
(*                issued one after another                                 *)
(***************************************************************************)
EXTENDS Integers, Sequences, FiniteSets, TLC

VARIABLES
    pc,               \* position of the main flow
    unwind,           \* why the finally clause (service.stop()) runs
    pendingExit,      \* SystemExit code carried through the finally clause
    exitCode,         \* exit code of the experiment process once it ended
    uncaught,         \* the process ended with an unhandled exception
    handled,          \* terminated["handled"]
    hstack,           \* running _handle_signal invocations, innermost last
    firstSig,         \* signum of the first signal delivered, 0 before
    timerStopped,     \* ExperimentTimer._end has been set
    agentResult,      \* AgentResult returned by agent.run
    runScript,        \* workspace contains run.sh
    service_ready,    \* value returned by service.start, Unset before
    test_result,      \* SuiteResult returned by SuiteRunner.run
    service_crashed,  \* local of run_single_experiment (line 142)
    service_exit_code,\* local of run_single_experiment (line 143)
    svcProcess,       \* ServiceManager._process: "None" or "set"
    svcFiles,         \* ServiceManager log files are open
    leader,           \* run.sh process: "none", "running", "exited"
    leaderCode,       \* its exit code, or None
    leaderTermProof,  \* the leader does not exit on SIGTERM within the grace
    child,            \* a descendant in the group that ignores SIGTERM:
                      \* "none", "running", "dead"
    probes,           \* health probes sent by _wait_for_ready
    resultJson,       \* <run_dir>/result.json: <<>> or <<record>>
    jsonl,            \* lines of results.jsonl written for this run_id
    signalTxt,        \* <run_dir>/signal.txt: <<>> or its message
    agentRuns,        \* calls of agent.run
    startCalls,       \* calls of ServiceManager.start
    suiteCalls,       \* calls of SuiteRunner.run
    stopCalls,        \* calls of ServiceManager.stop
    stopDone,         \* calls of ServiceManager.stop that returned
    result            \* status of the result run_single_experiment returned

expVars == <<pc, unwind, pendingExit, exitCode, uncaught, handled, hstack,
          firstSig, timerStopped, agentResult, runScript,
          service_ready, test_result, service_crashed, service_exit_code,
          svcProcess, svcFiles, leader, leaderCode, leaderTermProof, child,
          probes, resultJson, jsonl, signalTxt,
          agentRuns, startCalls, suiteCalls, stopCalls, stopDone, result>>

(* Python's None where a string is expected *)
None == "None"

(* Optional[int]: None is the empty set, the integer c is {c} *)
NoCode == {}
Code(c) == {c}

(* a local that is unbound until its assignment, and a bound one *)
Unset == {}
Some(v) == {v}

(* Bounds of the model *)
MaxNesting == 2
MaxPolls == 2

(* signal.SIGHUP, signal.SIGINT, signal.SIGTERM *)
Signums == {1, 2, 15}

SignalName(signum) ==
    CASE signum = 1 -> "SIGHUP"
      [] signum = 2 -> "SIGINT"
      [] signum = 15 -> "SIGTERM"
      [] OTHER -> "?"

(* exit codes a service that dies by itself can leave *)
SvcExitCodes == {1}

(* error text the suite adapter can extract from pytest output *)
SuiteErrors == {None, "AssertionError"}

ExperimentResult(status, site, msg) ==
    [status |-> status, site |-> site, error_message |-> msg]

AgentResult(code, to) == [exit_code |-> code, timed_out |-> to]

SuiteResult(code, err) ==
    [passed |-> (code = 0), exit_code |-> code, error_message |-> err]

(* positions of the main flow inside the try block of lines 122-144 *)
InTry == {"start_check", "start_popen", "start_assign", "wait_ready",
          "start_ret", "nr_save1", "nr_save2", "nr_close", "nr_return",
          "suite",
          "sample_crash", "sample_code"}

(* positions inside service.stop() called from the finally clause *)
InStop == {"stop_term", "stop_wait", "stop_kill", "stop_clear"}

Idle == hstack = <<>>
Alive == pc # "exited"

(* ---------------- components modelled on their own ---------------- *)

(* run_with_streaming (harness/agents/base.py): one call *)
VARIABLES
    rpc,              \* position inside run_with_streaming
    rclock,           \* time.time() - start_time, in select intervals (0.1 s)
    timeout_sec,      \* the timeout argument, in the same unit
    cmdFound,         \* the executable cmd[0] exists
    holder,           \* a descendant of the command keeps the slave side of
                      \* the pseudo-terminal open after the command exited
    proc,             \* the command: "none", "running", "exited", "killed"
    returncode,       \* exit code of the command once it exited, or None
    poll_result,      \* local of run_with_streaming (line 81)
    pty,              \* chunks written to the terminal and not read yet
    written,          \* chunks written to the terminal so far
    output_log,       \* local of run_with_streaming (line 42)
    sink,             \* what was written to sys.stdout and sys.stderr
    log_file,         \* content of agent.stdout.log (lines 50, 94, 114, 128)
    exitAt,           \* elapsed time at which the command exited, -1 before
    timed_out,        \* local of run_with_streaming (line 43)
    exit_code,        \* local of run_with_streaming (line 44)
    rResult           \* the AgentResult returned, Unset before

runnerVars == <<rpc, rclock, timeout_sec, cmdFound, holder, proc, returncode,
                poll_result, pty, written, output_log, sink, log_file, exitAt,
                timed_out, exit_code, rResult>>

(* Bounds of the runner model *)
MaxClock == 4
MaxChunks == 3

(* timeouts the runner is called with, exit codes of the command, and the
   chunks a command can print *)
Timeouts == {1, 2}
ExitCodes == {0, 1, 127}
NotFoundMsg == "Command not found: cmd"
Chunks == {"out", NotFoundMsg}

(* lines 42-44 and the state before subprocess.Popen of line 58 *)
RunnerStart(t, found, h) ==
    /\ rpc = "popen"
    /\ rclock = 0
    /\ timeout_sec = t
    /\ cmdFound = found
    /\ holder = h
    /\ proc = "none"
    /\ returncode = NoCode
    /\ poll_result = NoCode
    /\ pty = <<>>
    /\ written = 0
    /\ output_log = <<>>
    /\ sink = [stdout |-> <<>>, stderr |-> <<>>]
    /\ log_file = <<>>
    /\ exitAt = -1
    /\ timed_out = FALSE
    /\ exit_code = 0
    /\ rResult = Unset

RunnerParked == RunnerStart(1, TRUE, FALSE)

(* ServiceManager._wait_for_ready (harness/service.py): one call, with
   time.monotonic() explicit *)
VARIABLES
    wpc,              \* position inside _wait_for_ready
    wnow,             \* time.monotonic() since line 85, in units of 0.5 s
    deadline,         \* healthz_timeout_sec in the same unit (line 85)
    svc,              \* the service process: "running" or "exited"
    sentAt,           \* wnow when the last probe was sent, -1 before
    okAt,             \* wnow when a probe returned 200, -1 before
    wret,             \* value _wait_for_ready returned, Unset before
    ended             \* how the loop ended: "no", "ok", "died", "deadline",
                      \* "raised"

healthVars == <<wpc, wnow, deadline, svc, sentAt, okAt, wret, ended>>

(* Bound of the health model: the longest health timeout *)
MaxHealthTimeout == 3

(* health timeouts, the probe timeout of line 93 (2.0 s) and the sleep of
   line 99 (0.5 s) *)
HealthTimeouts == 2..MaxHealthTimeout
ProbeTimeout == 4
PollInterval == 1

(* line 85, with the service process launched at line 71 *)
WaitStart(t) ==
    /\ wpc = "head"
    /\ wnow = 0
    /\ deadline = t
    /\ svc = "running"
    /\ sentAt = -1
    /\ okAt = -1
    /\ wret = Unset
    /\ ended = "no"

HealthParked == WaitStart(2)

(* SuiteRunner.run (harness/test_runner.py): one call *)
VARIABLES
    suiteIn,          \* what the call meets: the tests directory, the pytest
                      \* process and what it printed
    suiteOut          \* the SuiteResult returned, Unset before

suiteVars == <<suiteIn, suiteOut>>

(* Bound of the suite model: lines of pytest output *)
MaxLines == 2

(* exit codes of pytest: all passed, failures, interrupted, no tests *)
PytestCodes == {0, 1, 2, 5}

(* the lines of pytest output the adapter's regular expressions tell
   apart: "<n> passed", "<n> failed", "<id> FAILED", "E   <text>", others *)
PytestLines ==
    {[kind |-> "passed", n |-> 1, text |-> ""],
     [kind |-> "passed", n |-> 2, text |-> ""],
     [kind |-> "failed", n |-> 1, text |-> ""],
     [kind |-> "FAILED", n |-> 0, text |-> "tests/test_x.py::test_y"],
     [kind |-> "E", n |-> 0, text |-> "AssertionError"],
     [kind |-> "other", n |-> 0, text |-> ""]}

SuiteInput(dir, to, code, out) ==
    [tests_dir |-> dir, timeout |-> to, returncode |-> code, stdout |-> out]

SuiteParked ==
    /\ suiteIn = SuiteInput(TRUE, FALSE, 0, <<>>)
    /\ suiteOut = Unset

(* the scheduler (harness/orchestrate.py): start_experiment called by
   scheduler processes, and the tmux server *)
VARIABLES
    sched,            \* per scheduler process: position inside
                      \* start_experiment, len(active) it counted, the
                      \* exp_id it generated (0 before)
    tmuxSessions,     \* exp_ids of the live tmux sessions named bench_<id>
    metaFiles,        \* exp_ids whose directory holds a meta.json
    metaText,         \* exp_ids whose meta.json holds its JSON text
    exitFiles,        \* <<exp_id, code>> of the exit_code.txt files
    doneFiles,        \* exp_ids whose directory holds a done.txt
    launched,         \* exp_ids for which tmux new-session succeeded
    st,               \* the call of status(): its position, the sessions
                      \* it listed, the directories still to visit and
                      \* the two lists it is building
    errFiles,         \* exp_ids whose directory holds a tmux_error.txt
    nextId,           \* the next exp_id generate_experiment_id yields
    callLog,          \* outcomes of the calls that returned, oldest first
    others,           \* the live tmux sessions whose name does not start
                      \* with bench_
    stop              \* the call of stop_all(): its position, the sessions
                      \* it listed and the kills it has sent

(* what start_experiment and status() leave alone: stop_all() and the
   sessions that are not experiments *)
stopVars == <<others, stop>>

schedVars == <<sched, tmuxSessions, metaFiles, errFiles, nextId, callLog,
               metaText, exitFiles, doneFiles, launched, st, stopVars>>

(* what start_experiment leaves alone: status() and the sentinel files *)
statusVars == <<exitFiles, doneFiles, st>>

(* Bounds of the scheduler model: the capacity (6 in orchestrate.py,
   line 13), the calls of start_experiment and the scheduler processes *)
MAX_CONCURRENT == 2
MaxCalls == 4
NumSchedulers == 2
MaxDirs == 2
MaxOthers == 1

Procs == 1..NumSchedulers

SchedIdle == [pc |-> "idle", active |-> 0, exp_id |-> 0]

(* the exit codes of run_experiment.py that the trap writes *)
TrapCodes == {0, 1}

StatusFresh == [pc |-> "idle", active |-> {}, dirs |-> {}, todo |-> {},
                running |-> {}, completed |-> {}]

(* a tmux session name: bench_<exp_id> for an experiment, a name without
   that prefix otherwise *)
SessionName(prefix, id) == [prefix |-> prefix, id |-> id]

(* stop_all() not called yet *)
StopFresh == [pc |-> "idle", active |-> {}, sent |-> {}]

SchedStart ==
    /\ sched = [p \in Procs |-> SchedIdle]
    /\ tmuxSessions = {}
    /\ metaFiles = {}
    /\ errFiles = {}
    /\ nextId = 1
    /\ callLog = <<>>
    /\ metaText = {}
    /\ exitFiles = {}
    /\ doneFiles = {}
    /\ launched = {}
    /\ st = StatusFresh
    /\ others = {}
    /\ stop = StopFresh

SchedParked == SchedStart

(* the results store (harness/results.py): results.jsonl and the
   processes appending to it *)
VARIABLES
    resultsFile,      \* what results.jsonl holds: the pieces written, a
                      \* piece being the JSON text of a result or the
                      \* newline after it
    writers,          \* per appending process: position inside append,
                      \* appends completed, and while the file is open
                      \* the length it had at open
    loaded            \* what the last load_all returned, or that it raised

resultsVars == <<resultsFile, writers, loaded>>

(* Bounds of the store model: the appending processes and the appends of
   each *)
NumWriters == 2
MaxAppends == 2

Writers == 1..NumWriters

LoadResult(ok, records) == [ok |-> ok, records |-> records]

ResultsStart ==
    /\ resultsFile = <<>>
    /\ writers = [w \in Writers |-> [pc |-> "idle", n |-> 0, offset |-> 0]]
    /\ loaded = LoadResult(TRUE, <<>>)

ResultsParked == ResultsStart

(* the rate limiter of the language-rewrite task
   (tasks/language-rewrite/starter/rate_limiter.py): one RateLimiter,
   every public method under its lock *)
VARIABLES
    lnow,             \* time.time(), in whole seconds
    configs,          \* name -> RateLimitConfig, as configure stored them
    states,           \* <<name, key>> -> the state kept for the key under
                      \* the config: none, a SlidingWindowState or a
                      \* TokenBucketState
    lres,             \* the last call: the method, its name and key
                      \* arguments and the "allowed" it returned
    lcalls            \* calls made so far

limiterVars == <<lnow, configs, states, lres, lcalls>>

(* Bounds of the limiter model: the clock, max_requests and
   window_seconds of a config, the cost of a call and the calls made *)
MaxTime == 2
MaxRequests == 2
MaxWindow == 2
MaxCost == 2
MaxOps == 2

Names == {"a", "b"}
Keys == {"k1", "k2"}
(* the cost of a call: data.get("cost", 1) of lines 367 and 377 is passed
   on as it came, so it may be negative *)
Costs == -1..MaxCost

(* RateLimitConfig; a token bucket without burst_size gets max_requests
   (lines 32-34) *)
RateLimitConfig(algorithm, max_requests, window_seconds) ==
    [algorithm |-> algorithm, max_requests |-> max_requests,
     window_seconds |-> window_seconds, burst_size |-> max_requests]

(* no entry for the key in the dict of the config *)
NoState == [kind |-> "none", timestamps |-> <<>>, tokens |-> 0,
            last_refill |-> 0]

(* SlidingWindowState(timestamps) *)
SlidingWindowState(timestamps) ==
    [kind |-> "sliding_window", timestamps |-> timestamps, tokens |-> 0,
     last_refill |-> 0]

(* TokenBucketState(tokens, last_refill); tokens is kept multiplied by
   window_seconds of the config, which makes it a whole number *)
TokenBucketState(tokens, last_refill) ==
    [kind |-> "token_bucket", timestamps |-> <<>>, tokens |-> tokens,
     last_refill |-> last_refill]

(* a call of check, consume or reset and what it answered *)
Call(op, name, key, allowed) ==
    [op |-> op, name |-> name, key |-> key, allowed |-> allowed]

(* the limiter after configure stored a sliding-window config under "a"
   and a token-bucket config under "b" *)
LimiterStart(max_requests, window_seconds) ==
    /\ lnow = 0
    /\ configs = [n \in Names |->
                    RateLimitConfig(IF n = "a" THEN "sliding_window"
                                               ELSE "token_bucket",
                                    max_requests, window_seconds)]
    /\ states = [s \in Names \X Keys |-> NoState]
    /\ lres = Call("none", "a", "k1", FALSE)
    /\ lcalls = 0

LimiterParked == LimiterStart(1, 1)

(* the components added after the scheduler *)
moreVars == <<resultsVars, limiterVars>>

MoreParked == ResultsParked /\ LimiterParked

compVars == <<runnerVars, healthVars, suiteVars, schedVars, moreVars>>

vars == <<expVars, compVars>>

Parked == RunnerParked /\ HealthParked /\ SuiteParked /\ SchedParked
             /\ MoreParked

(* the state at line 86 of run_experiment.py: the workspace exists, the
   timer runs and _handle_signal is installed for the three signals *)
ExpFresh(p) ==
    /\ pc = p
    /\ unwind = "none"
    /\ pendingExit = NoCode
    /\ exitCode = NoCode
    /\ uncaught = FALSE
    /\ handled = FALSE
    /\ hstack = <<>>
    /\ firstSig = 0
    /\ timerStopped = FALSE
    \* locals that are unbound until their assignment; never read before
    /\ agentResult = AgentResult(0, FALSE)
    /\ runScript = FALSE
    /\ service_ready = Unset
    /\ test_result = SuiteResult(1, None)
    /\ service_crashed = FALSE
    /\ service_exit_code = NoCode
    /\ svcProcess = "None"
    /\ svcFiles = FALSE
    /\ leader = "none"
    /\ leaderCode = NoCode
    /\ leaderTermProof = FALSE
    /\ child = "none"
    /\ probes = 0
    /\ resultJson = <<>>
    /\ jsonl = <<>>
    /\ signalTxt = <<>>
    /\ agentRuns = 0
    /\ startCalls = 0
    /\ suiteCalls = 0
    /\ stopCalls = 0
    /\ stopDone = 0
    /\ result = None

ExpInit == ExpFresh("get_agent")

(* the experiment process at its start; the components that are modelled
   on their own are parked *)
Init == ExpInit /\ Parked

(* variable groups, for UNCHANGED *)
sigVars == <<handled, hstack, firstSig>>
storeVars == <<resultJson, jsonl, signalTxt>>
envVars == <<leader, leaderCode, leaderTermProof, child>>
mgrVars == <<svcProcess, svcFiles>>
localVars == <<agentResult, runScript, service_ready, test_result,
               service_crashed, service_exit_code, result>>
callVars == <<agentRuns, startCalls, suiteCalls>>
loopVars == <<probes>>
exitVars == <<pendingExit, exitCode, uncaught>>

(* save_run_result, first write: result.json of the run directory *)
SaveWrite(rec) == resultJson' = <<rec>>

(* save_run_result, second write: ResultsWriter.append *)
SaveAppend(rec) == jsonl' = Append(jsonl, rec)

(* an exception that leaves run_single_experiment and main uncaught *)
Crash ==
    /\ pc' = "exited"
    /\ exitCode' = Code(1)
    /\ uncaught' = TRUE

(* control enters the finally clause: service.stop() is called *)
EnterStop(why) ==
    /\ pc' = "stop_term"
    /\ unwind' = why
    /\ stopCalls' = stopCalls + 1

(* ---------------- run_single_experiment: agent step ---------------- *)

(* get_agent(agent_name): ValueError for a name that is not registered *)
GetAgent ==
    /\ pc = "get_agent" /\ Idle
    /\ \E known \in BOOLEAN :
          IF known
          THEN pc' = "agent_run" /\ UNCHANGED exitVars
          ELSE Crash /\ UNCHANGED pendingExit
    /\ UNCHANGED <<compVars, unwind, sigVars, timerStopped, localVars, mgrVars, envVars,
                   loopVars, storeVars, callVars, stopCalls, stopDone>>

(* results an agent adapter returns: exit of the CLI, TimeoutExpired
   (exit_code -1, timed_out) and FileNotFoundError (exit_code 127) *)
AgentOutcomes ==
    {AgentResult(0, FALSE), AgentResult(-1, TRUE), AgentResult(127, FALSE)}

(* agent.run(...); the agent leaves a run.sh in the workspace or not *)
AgentRun ==
    /\ pc = "agent_run" /\ Idle
    /\ \E r \in AgentOutcomes, rs \in BOOLEAN :
          /\ agentResult' = r
          /\ runScript' = rs
    /\ agentRuns' = agentRuns + 1
    /\ pc' = "agent_check"
    /\ UNCHANGED <<compVars, unwind, exitVars, sigVars, timerStopped, service_ready,
                   test_result, service_crashed, service_exit_code, result,
                   mgrVars, envVars, loopVars, storeVars, startCalls,
                   suiteCalls, stopCalls, stopDone>>

(* AgentCheck running the agent again after a timeout *)
AgentCheck_RetryOnTimeout ==
    /\ pc = "agent_check" /\ Idle
    /\ IF agentResult.timed_out /\ agentRuns < 2
       THEN pc' = "agent_run"
       ELSE pc' = "svc_new"
    /\ UNCHANGED <<compVars, unwind, exitVars, sigVars, timerStopped, localVars,
                   mgrVars, envVars, loopVars, storeVars, callVars,
                   stopCalls, stopDone>>

(* AgentCheck without the timed_out test *)
AgentCheck_IgnoreTimeout ==
    /\ pc = "agent_check" /\ Idle
    /\ pc' = "svc_new"
    /\ UNCHANGED <<compVars, unwind, exitVars, sigVars, timerStopped, localVars,
                   mgrVars, envVars, loopVars, storeVars, callVars,
                   stopCalls, stopDone>>

(* if agent_result.timed_out: timer.stop() ... *)
AgentCheck ==
    /\ pc = "agent_check" /\ Idle
    /\ IF agentResult.timed_out
       THEN pc' = "to_save1" /\ timerStopped' = TRUE
       ELSE pc' = "svc_new" /\ UNCHANGED timerStopped
    /\ UNCHANGED <<compVars, unwind, exitVars, sigVars, localVars, mgrVars, envVars,
                   loopVars, storeVars, callVars, stopCalls, stopDone>>

TimeoutRecord == ExperimentResult("timeout", 108, <<"Agent timed out">>)

TimeoutSave1 ==
    /\ pc = "to_save1" /\ Idle
    /\ SaveWrite(TimeoutRecord)
    /\ pc' = "to_save2"
    /\ UNCHANGED <<compVars, unwind, exitVars, sigVars, timerStopped, localVars,
                   mgrVars, envVars, loopVars, jsonl, signalTxt, callVars,
                   stopCalls, stopDone>>

(* ResultsWriter.append, lines 48-49: the file is opened for appending and
   f.write leaves the line in the buffer of the file object *)
TimeoutSave2 ==
    /\ pc = "to_save2" /\ Idle
    /\ pc' = "to_close"
    /\ UNCHANGED <<compVars, unwind, exitVars, sigVars, timerStopped, localVars,
                   mgrVars, envVars, loopVars, storeVars, callVars,
                   stopCalls, stopDone>>

TimeoutReturn ==
    /\ pc = "to_return" /\ Idle
    /\ result' = "timeout"
    /\ pc' = "main_exit"
    /\ UNCHANGED <<compVars, unwind, exitVars, sigVars, timerStopped, agentResult,
                   runScript, service_ready, test_result, service_crashed,
                   service_exit_code, mgrVars, envVars, loopVars, storeVars,
                   callVars, stopCalls, stopDone>>

(* ---------------- ServiceManager.start ---------------- *)

(* get_free_port(), ServiceManager(...), and the call service.start(run_dir)
   that enters the try block *)
NewService ==
    /\ pc = "svc_new" /\ Idle
    /\ startCalls' = startCalls + 1
    /\ pc' = "start_check"
    /\ UNCHANGED <<compVars, unwind, exitVars, sigVars, timerStopped, localVars,
                   mgrVars, envVars, loopVars, storeVars, agentRuns,
                   suiteCalls, stopCalls, stopDone>>

(* run.sh missing: FileNotFoundError leaves start() through the finally
   clause; otherwise chmod and open the two log files *)
StartCheck ==
    /\ pc = "start_check" /\ Idle
    /\ IF runScript
       THEN /\ svcFiles' = TRUE
            /\ pc' = "start_popen"
            /\ UNCHANGED <<unwind, stopCalls>>
       ELSE /\ EnterStop("exc")
            /\ UNCHANGED svcFiles
    /\ UNCHANGED <<compVars, exitVars, sigVars, timerStopped, localVars, svcProcess,
                   envVars, loopVars, storeVars, callVars, stopDone>>

(* subprocess.Popen(["bash", "run.sh"], start_new_session=True): the leader
   of a new process group runs; it may have spawned a descendant *)
StartPopen ==
    /\ pc = "start_popen" /\ Idle
    /\ leader' = "running"
    /\ \E ltp \in BOOLEAN, ch \in {"none", "running"} :
          /\ leaderTermProof' = ltp
          /\ child' = ch
    /\ pc' = "start_assign"
    /\ UNCHANGED <<compVars, unwind, exitVars, sigVars, timerStopped, localVars,
                   mgrVars, leaderCode, loopVars, storeVars, callVars,
                   stopCalls, stopDone>>

(* self._process = <the Popen object> *)
StartAssign ==
    /\ pc = "start_assign" /\ Idle
    /\ svcProcess' = "set"
    /\ pc' = "wait_ready"
    /\ UNCHANGED <<compVars, unwind, exitVars, sigVars, timerStopped, localVars,
                   svcFiles, envVars, loopVars, storeVars, callVars,
                   stopCalls, stopDone>>

(* outcomes of httpx.get(url, timeout=2.0): a status code, ConnectError,
   TimeoutException, or another transport error (server disconnected) *)
ProbeOutcomes == {"200", "503", "refused", "timeout", "disconnect"}

(* one iteration of the loop of _wait_for_ready; every iteration that
   sends a probe takes time, and the deadline has passed after MaxPolls of
   them at the latest *)
WaitReady ==
    /\ pc = "wait_ready" /\ Idle
    /\ \/ \* time.monotonic() >= deadline
          /\ service_ready' = Some(FALSE)
          /\ pc' = "start_ret"
          /\ UNCHANGED <<probes, unwind, stopCalls>>
       \/ \* the process died
          /\ probes < MaxPolls
          /\ svcProcess = "set" /\ leader = "exited"
          /\ service_ready' = Some(FALSE)
          /\ pc' = "start_ret"
          /\ UNCHANGED <<probes, unwind, stopCalls>>
       \/ /\ probes < MaxPolls
          /\ ~(svcProcess = "set" /\ leader = "exited")
          /\ probes' = probes + 1
          /\ \E resp \in ProbeOutcomes :
                CASE resp = "200" ->
                        /\ service_ready' = Some(TRUE)
                        /\ pc' = "start_ret"
                        /\ UNCHANGED <<unwind, stopCalls>>
                  [] resp = "disconnect" ->
                        /\ EnterStop("exc")
                        /\ UNCHANGED service_ready
                  [] OTHER ->
                        UNCHANGED <<pc, service_ready, unwind, stopCalls>>
    /\ UNCHANGED <<compVars, exitVars, sigVars, timerStopped, agentResult, runScript,
                   test_result, service_crashed, service_exit_code, result,
                   mgrVars, envVars, storeVars, callVars, stopDone>>

(* StartRet without the service_ready test *)
StartRet_AlwaysSuite ==
    /\ pc = "start_ret" /\ Idle
    /\ pc' = "suite"
    /\ UNCHANGED <<compVars, unwind, exitVars, sigVars, timerStopped, localVars,
                   mgrVars, envVars, loopVars, storeVars, callVars,
                   stopCalls, stopDone>>

(* if not service_ready: timer.stop() ... *)
StartRet ==
    /\ pc = "start_ret" /\ Idle
    /\ IF service_ready = Some(TRUE)
       THEN pc' = "suite" /\ UNCHANGED timerStopped
       ELSE pc' = "nr_save1" /\ timerStopped' = TRUE
    /\ UNCHANGED <<compVars, unwind, exitVars, sigVars, localVars, mgrVars, envVars,
                   loopVars, storeVars, callVars, stopCalls, stopDone>>

NotReadyRecord ==
    ExperimentResult("error", 132, <<"Service failed to start">>)

NotReadySave1 ==
    /\ pc = "nr_save1" /\ Idle
    /\ SaveWrite(NotReadyRecord)
    /\ pc' = "nr_save2"
    /\ UNCHANGED <<compVars, unwind, exitVars, sigVars, timerStopped, localVars,
                   mgrVars, envVars, loopVars, jsonl, signalTxt, callVars,
                   stopCalls, stopDone>>

(* ResultsWriter.append, lines 48-49: the file is opened for appending and
   f.write leaves the line in the buffer of the file object *)
NotReadySave2 ==
    /\ pc = "nr_save2" /\ Idle
    /\ pc' = "nr_close"
    /\ UNCHANGED <<compVars, unwind, exitVars, sigVars, timerStopped, localVars,
                   mgrVars, envVars, loopVars, storeVars, callVars,
                   stopCalls, stopDone>>

(* `return result` inside the try block: the finally clause runs first *)
NotReadyReturn ==
    /\ pc = "nr_return" /\ Idle
    /\ result' = "error"
    /\ EnterStop("return")
    /\ UNCHANGED <<compVars, exitVars, sigVars, timerStopped, agentResult, runScript,
                   service_ready, test_result, service_crashed,
                   service_exit_code, mgrVars, envVars, loopVars, storeVars,
                   callVars, stopDone>>

(* ---------------- SuiteRunner.run and the crash check ---------------- *)

(* results of SuiteRunner.run: tests directory missing (exit_code 1), exit
   of pytest, TimeoutExpired (exit_code -1); error_message is extracted
   only when exit_code != 0 *)
SuiteOutcomes ==
    {SuiteResult(1, None), SuiteResult(0, None)}
    \cup {SuiteResult(c, e) : c \in {1, -1}, e \in SuiteErrors}

Suite ==
    /\ pc = "suite" /\ Idle
    /\ suiteCalls' = suiteCalls + 1
    /\ \/ \E r \in SuiteOutcomes :
             /\ test_result' = r
             /\ pc' = "sample_crash"
             /\ UNCHANGED <<unwind, stopCalls>>
       \/ \* the test command is not installed: FileNotFoundError
          /\ EnterStop("exc")
          /\ UNCHANGED test_result
    /\ UNCHANGED <<compVars, exitVars, sigVars, timerStopped, agentResult, runScript,
                   service_ready, service_crashed, service_exit_code, result,
                   mgrVars, envVars, loopVars, storeVars, agentRuns,
                   startCalls, stopDone>>

is_running == svcProcess # "None" /\ leader = "running"

(* get_exit_code answering from a process handle that stop() kept *)
get_exit_code_AfterStop ==
    IF leader = "exited" THEN leaderCode ELSE NoCode

get_exit_code ==
    IF svcProcess = "None" THEN NoCode
    ELSE IF leader = "exited" THEN leaderCode ELSE NoCode

(* service_crashed = not service.is_running() *)
SampleCrash ==
    /\ pc = "sample_crash" /\ Idle
    /\ service_crashed' = ~is_running
    /\ pc' = "sample_code"
    /\ UNCHANGED <<compVars, unwind, exitVars, sigVars, timerStopped, agentResult,
                   runScript, service_ready, test_result, service_exit_code,
                   result, mgrVars, envVars, loopVars, storeVars, callVars,
                   stopCalls, stopDone>>

(* service_exit_code = service.get_exit_code(); then the finally clause *)
SampleCode ==
    /\ pc = "sample_code" /\ Idle
    /\ service_exit_code' = get_exit_code
    /\ EnterStop("fall")
    /\ UNCHANGED <<compVars, exitVars, sigVars, timerStopped, agentResult, runScript,
                   service_ready, test_result, service_crashed, result,
                   mgrVars, envVars, loopVars, storeVars, callVars, stopDone>>

(* ---------------- ServiceManager.stop (the finally clause) ------------- *)

(* os.killpg succeeds or raises: ProcessLookupError when the group is
   gone, PermissionError when a member may not be signalled *)
KillpgOutcomes == {"ok", "ProcessLookupError", "PermissionError"}

(* except (ProcessLookupError, PermissionError): pass *)
Swallowed == {"ProcessLookupError", "PermissionError"}

(* if self._process: os.killpg(pid, SIGTERM); the descendant ignores it *)
StopTerm ==
    /\ pc = "stop_term" /\ Idle
    /\ IF svcProcess = "None"
       THEN pc' = "stop_clear" /\ UNCHANGED exitVars
       ELSE \E e \in KillpgOutcomes :
               IF e = "ok" \/ e \in Swallowed
               THEN pc' = "stop_wait" /\ UNCHANGED exitVars
               ELSE Crash /\ UNCHANGED pendingExit
    /\ UNCHANGED <<compVars, unwind, sigVars, timerStopped, localVars,
                   mgrVars, envVars, loopVars, storeVars, callVars, stopCalls,
                   stopDone>>

(* self._process.wait(timeout=5): only the leader is waited for; a leader
   that is still running exits on the SIGTERM, or TimeoutExpired is raised *)
StopWait ==
    /\ pc = "stop_wait" /\ Idle
    /\ IF leader = "exited"
       THEN pc' = "stop_clear" /\ UNCHANGED <<leader, leaderCode>>
       ELSE IF ~leaderTermProof
            THEN /\ leader' = "exited"
                 /\ leaderCode' = Code(-15)
                 /\ pc' = "stop_clear"
            ELSE pc' = "stop_kill" /\ UNCHANGED <<leader, leaderCode>>
    /\ UNCHANGED <<compVars, unwind, exitVars, sigVars, timerStopped, localVars,
                   mgrVars, leaderTermProof, child, loopVars,
                   storeVars, callVars, stopCalls, stopDone>>

(* os.killpg(pid, SIGKILL); self._process.wait(): every member of the
   group dies *)
StopKill ==
    /\ pc = "stop_kill" /\ Idle
    /\ IF leader = "running"
       THEN leader' = "exited" /\ leaderCode' = Code(-9)
       ELSE UNCHANGED <<leader, leaderCode>>
    /\ child' = IF child = "running" THEN "dead" ELSE child
    /\ \E e \in KillpgOutcomes :
          IF e = "ok" \/ e \in Swallowed
          THEN pc' = "stop_clear" /\ UNCHANGED exitVars
          ELSE Crash /\ UNCHANGED pendingExit
    /\ UNCHANGED <<compVars, unwind, sigVars, timerStopped, localVars,
                   mgrVars, leaderTermProof, loopVars,
                   storeVars, callVars, stopCalls, stopDone>>

(* stop() that returns without clearing self._process and the log files *)
StopClear_KeepProcess ==
    /\ pc = "stop_clear" /\ Idle
    /\ stopDone' = stopDone + 1
    /\ unwind' = "none"
    /\ pc' = "mgr_idle"
    /\ UNCHANGED <<compVars, exitVars, timerStopped, mgrVars, sigVars,
                   localVars, envVars, loopVars, storeVars, callVars,
                   stopCalls>>

(* self._process = None, the log files are closed and stop() returns;
   control continues after the finally clause: it falls through, returns,
   or re-raises the exception *)
StopClear ==
    /\ pc = "stop_clear" /\ Idle
    /\ svcProcess' = "None"
    /\ svcFiles' = FALSE
    /\ stopDone' = stopDone + 1
    /\ unwind' = "none"
    /\ CASE unwind = "fall" ->
                pc' = "v_save1" /\ timerStopped' = TRUE /\ UNCHANGED exitVars
         [] unwind = "return" ->
                pc' = "main_exit" /\ UNCHANGED <<exitVars, timerStopped>>
         [] unwind = "exc" ->
                Crash /\ UNCHANGED <<pendingExit, timerStopped>>
         [] unwind = "sysexit" ->
                /\ pc' = "exited"
                /\ exitCode' = pendingExit
                /\ UNCHANGED <<pendingExit, uncaught, timerStopped>>
         [] unwind = "call" ->
                pc' = "mgr_idle" /\ UNCHANGED <<exitVars, timerStopped>>
    /\ UNCHANGED <<compVars, sigVars, localVars, envVars, loopVars, storeVars,
                   callVars, stopCalls>>

(* ---------------- the verdict ---------------- *)

(* the verdict with the crash test taking precedence over the suite *)
VerdictStatus_CrashFirst(crashed, passed) ==
    IF crashed THEN "error"
    ELSE IF passed THEN "pass"
    ELSE "fail"

VerdictStatus(crashed, passed) ==
    IF crashed /\ ~passed THEN "error"
    ELSE IF passed THEN "pass"
    ELSE "fail"

(* the crash message built without the sampled exit code *)
VerdictMessage_NoCode(crashed, code, tr) ==
    IF crashed /\ ~tr.passed
    THEN <<"Service crashed during tests (exit code: ", NoCode, ")">>
    ELSE IF tr.passed THEN <<>>
    ELSE IF tr.error_message # None THEN <<tr.error_message>> ELSE <<>>

(* error_message of lines 151-161 as the sequence of its parts; None is
   the empty sequence *)
VerdictMessage(crashed, code, tr) ==
    IF crashed /\ ~tr.passed
    THEN <<"Service crashed during tests (exit code: ", code, ")">>
         \o (IF tr.error_message # None
             THEN <<" - ", tr.error_message>> ELSE <<>>)
    ELSE IF tr.passed THEN <<>>
    ELSE IF tr.error_message # None THEN <<tr.error_message>> ELSE <<>>

VerdictRecord ==
    ExperimentResult(VerdictStatus(service_crashed, test_result.passed), 168,
                     VerdictMessage(service_crashed, service_exit_code,
                                    test_result))

VerdictSave1 ==
    /\ pc = "v_save1" /\ Idle
    /\ SaveWrite(VerdictRecord)
    /\ pc' = "v_save2"
    /\ UNCHANGED <<compVars, unwind, exitVars, sigVars, timerStopped, localVars,
                   mgrVars, envVars, loopVars, jsonl, signalTxt, callVars,
                   stopCalls, stopDone>>

(* ResultsWriter.append, lines 48-49: the file is opened for appending and
   f.write leaves the line in the buffer of the file object *)
VerdictSave2 ==
    /\ pc = "v_save2" /\ Idle
    /\ pc' = "v_close"
    /\ UNCHANGED <<compVars, unwind, exitVars, sigVars, timerStopped, localVars,
                   mgrVars, envVars, loopVars, storeVars, callVars,
                   stopCalls, stopDone>>

VerdictReturn ==
    /\ pc = "v_return" /\ Idle
    /\ result' = VerdictRecord.status
    /\ pc' = "main_exit"
    /\ UNCHANGED <<compVars, unwind, exitVars, sigVars, timerStopped, agentResult,
                   runScript, service_ready, test_result, service_crashed,
                   service_exit_code, mgrVars, envVars, loopVars, storeVars,
                   callVars, stopCalls, stopDone>>

(* positions between the f.write and the end of the with block of
   ResultsWriter.append *)
Closing == {"to_close", "nr_close", "v_close"}

(* the line waiting in the buffer of the file object *)
Buffered ==
    CASE pc = "to_close" -> TimeoutRecord
      [] pc = "nr_close" -> NotReadyRecord
      [] OTHER -> VerdictRecord

(* the with block of ResultsWriter.append ends: the file is closed, which
   writes the buffered line at the end of results.jsonl *)
SaveClose ==
    /\ pc \in Closing /\ Idle
    /\ jsonl' = Append(jsonl, Buffered)
    /\ pc' = CASE pc = "to_close" -> "to_return"
               [] pc = "nr_close" -> "nr_return"
               [] OTHER -> "v_return"
    /\ UNCHANGED <<compVars, unwind, exitVars, sigVars, timerStopped, localVars,
                   mgrVars, envVars, loopVars, resultJson, signalTxt,
                   callVars, stopCalls, stopDone>>

(* main: sys.exit(0 if result.status == "pass" else 1) *)
MainExit ==
    /\ pc = "main_exit" /\ Idle
    /\ exitCode' = Code(IF result = "pass" THEN 0 ELSE 1)
    /\ pc' = "exited"
    /\ UNCHANGED <<compVars, unwind, pendingExit, uncaught, sigVars, timerStopped,
                   localVars, mgrVars, envVars, loopVars, storeVars,
                   callVars, stopCalls, stopDone>>

(* ---------------- the environment ---------------- *)

(* the service process exits by itself *)
LeaderDies ==
    /\ Alive
    /\ leader = "running"
    /\ leader' = "exited"
    /\ \E c \in SvcExitCodes : leaderCode' = Code(c)
    /\ UNCHANGED <<compVars, pc, unwind, exitVars, sigVars, timerStopped, localVars,
                   mgrVars, leaderTermProof, child, loopVars,
                   storeVars, callVars, stopCalls, stopDone>>

(* ---------------- _handle_signal ---------------- *)

Top == hstack[Len(hstack)]
SetTop(h) == [hstack EXCEPT ![Len(hstack)].hpc = h]
Pop == SubSeq(hstack, 1, Len(hstack) - 1)
InHandler(h) == hstack # <<>> /\ Top.hpc = h

SignalMessage(signum) ==
    <<"terminated by signal ", SignalName(signum), signum>>

SignalRecord(signum) ==
    ExperimentResult("error", 81, SignalMessage(signum))

(* SIGTERM, SIGINT or SIGHUP reaches the process: Python calls
   _handle_signal on top of whatever the main thread is running *)
Deliver ==
    /\ Alive
    /\ Len(hstack) < MaxNesting
    /\ \E s \in Signums :
          /\ hstack' = Append(hstack, [signum |-> s, hpc |-> "check"])
          /\ firstSig' = IF firstSig = 0 THEN s ELSE firstSig
    /\ UNCHANGED <<compVars, pc, unwind, exitVars, handled, timerStopped, localVars,
                   mgrVars, envVars, loopVars, storeVars, callVars,
                   stopCalls, stopDone>>

(* if terminated["handled"]: return *)
HandlerCheck ==
    /\ InHandler("check")
    /\ hstack' = IF handled THEN Pop ELSE SetTop("set")
    /\ UNCHANGED <<compVars, pc, unwind, exitVars, handled, firstSig,
                   timerStopped, localVars, mgrVars, envVars, loopVars,
                   storeVars, callVars, stopCalls, stopDone>>

(* terminated["handled"] = True; timer.stop(); the message is built and
   signal.txt is written *)
HandlerSet ==
    /\ InHandler("set")
    /\ handled' = TRUE
    /\ timerStopped' = TRUE
    /\ signalTxt' = SignalMessage(Top.signum)
    /\ hstack' = SetTop("save1")
    /\ UNCHANGED <<compVars, pc, unwind, exitVars, firstSig, localVars, mgrVars,
                   envVars, loopVars, resultJson, jsonl, callVars, stopCalls,
                   stopDone>>

HandlerSave1 ==
    /\ InHandler("save1")
    /\ SaveWrite(SignalRecord(Top.signum))
    /\ hstack' = SetTop("save2")
    /\ UNCHANGED <<compVars, pc, unwind, exitVars, handled, firstSig,
                   timerStopped, localVars, mgrVars, envVars, loopVars,
                   jsonl, signalTxt, callVars, stopCalls, stopDone>>

HandlerSave2 ==
    /\ InHandler("save2")
    /\ SaveAppend(SignalRecord(Top.signum))
    /\ hstack' = SetTop("exit")
    /\ UNCHANGED <<compVars, pc, unwind, exitVars, handled, firstSig,
                   timerStopped, localVars, mgrVars, envVars, loopVars,
                   resultJson, signalTxt, callVars, stopCalls, stopDone>>

(* sys.exit(128 + signum): SystemExit leaves every running handler
   invocation and is raised where the main flow was interrupted; inside
   the with block of ResultsWriter.append the file is closed on the way
   out, which writes the buffered line; inside the try block the finally
   clause runs, elsewhere (also inside the finally clause itself) the
   process ends *)
HandlerExit ==
    /\ InHandler("exit")
    /\ hstack' = <<>>
    /\ IF pc \in InTry
       THEN /\ EnterStop("sysexit")
            /\ pendingExit' = Code(128 + Top.signum)
            /\ UNCHANGED <<exitCode, uncaught>>
       ELSE /\ pc' = "exited"
            /\ exitCode' = Code(128 + Top.signum)
            /\ UNCHANGED <<unwind, pendingExit, uncaught, stopCalls>>
    /\ jsonl' = IF pc \in Closing THEN Append(jsonl, Buffered) ELSE jsonl
    /\ UNCHANGED <<compVars, handled, firstSig, timerStopped, localVars,
                   mgrVars, envVars, loopVars, resultJson, signalTxt,
                   callVars, stopDone>>

Next ==
    \/ GetAgent \/ AgentRun \/ AgentCheck
    \/ TimeoutSave1 \/ TimeoutSave2 \/ TimeoutReturn
    \/ NewService \/ StartCheck \/ StartPopen \/ StartAssign
    \/ WaitReady \/ StartRet
    \/ NotReadySave1 \/ NotReadySave2 \/ NotReadyReturn
    \/ Suite \/ SampleCrash \/ SampleCode
    \/ StopTerm \/ StopWait \/ StopKill \/ StopClear
    \/ VerdictSave1 \/ VerdictSave2 \/ VerdictReturn
    \/ SaveClose
    \/ MainExit
    \/ LeaderDies
    \/ Deliver
    \/ HandlerCheck \/ HandlerSet
    \/ HandlerSave1 \/ HandlerSave2 \/ HandlerExit

Spec == Init /\ [][Next]_vars

TypeOK ==
    /\ pc \in InTry \cup InStop \cup
              {"get_agent", "agent_run", "agent_check", "svc_new",
               "to_save1", "to_save2", "to_close", "to_return",
               "v_save1", "v_save2", "v_close", "v_return", "main_exit",
               "exited"}
    /\ unwind \in {"none", "fall", "return", "exc", "sysexit"}
    /\ handled \in BOOLEAN
    /\ Len(hstack) <= MaxNesting
    /\ Len(jsonl) <= 2
    /\ leader \in {"none", "running", "exited"}
    /\ child \in {"none", "running", "dead"}
    /\ probes \in 0..MaxPolls

(* ======================= run_with_streaming ======================= *)

(* what a runner step leaves alone besides the runner's own variables *)
runnerRest == <<expVars, healthVars, suiteVars, schedVars, moreVars>>

(* AgentResult(exit_code, stdout="".join(output_log), stderr="", timed_out)
   of lines 135-140 *)
RunnerResult(code, log, to) ==
    [exit_code |-> code, stdout |-> log, stderr |-> "", timed_out |-> to]

(* the terminal's master side is readable: unread output, or the hang-up
   that follows once no process holds the slave side any more *)
Hangup == proc \in {"exited", "killed"} /\ ~holder
Readable == pty # <<>> \/ Hangup

(* time that passes during a step, saturating at the bound of the model *)
Later(d) == IF rclock + d > MaxClock THEN MaxClock ELSE rclock + d

(* the branch of line 99 after the read of lines 84-97 *)
AfterRead == IF poll_result # NoCode THEN "dselect" ELSE "top"

(* proc = subprocess.Popen(cmd, ...): FileNotFoundError is caught at lines
   123-129 *)
Popen ==
    /\ rpc = "popen"
    /\ IF cmdFound
       THEN /\ proc' = "running"
            /\ rpc' = "top"
            /\ UNCHANGED <<output_log, sink, log_file, exit_code>>
       ELSE /\ output_log' = Append(output_log, NotFoundMsg)
            /\ sink' = [sink EXCEPT !.stderr = Append(@, NotFoundMsg)]
            /\ log_file' = Append(log_file, NotFoundMsg)
            /\ exit_code' = 127
            /\ rpc' = "ret"
            /\ UNCHANGED proc
    /\ UNCHANGED <<runnerRest, rclock, timeout_sec, exitAt, cmdFound, holder,
                   returncode, poll_result, pty, written, timed_out, rResult>>

(* loop head without the deadline test of lines 74-78 *)
LoopTop_NoDeadline ==
    /\ rpc = "top"
    /\ poll_result' = IF proc = "exited" THEN returncode ELSE NoCode
    /\ rpc' = "select"
    /\ UNCHANGED <<proc, returncode, timed_out>>
    /\ UNCHANGED <<runnerRest, rclock, timeout_sec, exitAt, cmdFound, holder,
                   pty, written, output_log, sink, log_file, exit_code,
                   rResult>>

(* lines 74-81: elapsed > timeout_sec kills the command and leaves the
   loop; otherwise poll_result = proc.poll() *)
LoopTop ==
    /\ rpc = "top"
    /\ IF rclock > timeout_sec
       THEN /\ proc' = IF proc = "running" THEN "killed" ELSE proc
            /\ returncode' = IF proc = "running" THEN Code(-9) ELSE returncode
            /\ timed_out' = TRUE
            /\ rpc' = "ret"
            /\ UNCHANGED poll_result
       ELSE /\ poll_result' = IF proc = "exited" THEN returncode ELSE NoCode
            /\ rpc' = "select"
            /\ UNCHANGED <<proc, returncode, timed_out>>
    /\ UNCHANGED <<runnerRest, rclock, timeout_sec, exitAt, cmdFound, holder,
                   pty, written, output_log, sink, log_file, exit_code,
                   rResult>>

(* line 84: select.select([master_fd], [], [], 0.1) returns as soon as the
   descriptor is readable, after the whole interval otherwise *)
Select ==
    /\ rpc = "select"
    /\ IF Readable
       THEN /\ \E d \in {0, 1} : rclock' = Later(d)
            /\ rpc' = "read"
       ELSE /\ rclock' = Later(1)
            /\ rpc' = AfterRead
    /\ UNCHANGED <<runnerRest, timeout_sec, exitAt, cmdFound, holder, proc,
                   returncode, poll_result, pty, written, output_log, sink,
                   log_file, timed_out, exit_code, rResult>>

(* the read of lines 85-97 without the log_file.write of line 94 *)
Read_SinkOnly ==
    /\ rpc = "read"
    /\ IF pty # <<>>
       THEN /\ output_log' = Append(output_log, Head(pty))
            /\ sink' = [sink EXCEPT !.stdout = Append(@, Head(pty))]
            /\ UNCHANGED log_file
            /\ pty' = Tail(pty)
       ELSE UNCHANGED <<output_log, sink, log_file, pty>>
    /\ rpc' = AfterRead
    /\ UNCHANGED <<runnerRest, rclock, timeout_sec, exitAt, cmdFound, holder,
                   proc, returncode, poll_result, written, timed_out,
                   exit_code, rResult>>

(* lines 85-97: os.read(master_fd, 4096); the chunk is logged and
   forwarded, OSError after a hang-up is passed over *)
Read ==
    /\ rpc = "read"
    /\ IF pty # <<>>
       THEN /\ output_log' = Append(output_log, Head(pty))
            /\ sink' = [sink EXCEPT !.stdout = Append(@, Head(pty))]
            /\ log_file' = Append(log_file, Head(pty))
            /\ pty' = Tail(pty)
       ELSE UNCHANGED <<output_log, sink, log_file, pty>>
    /\ rpc' = AfterRead
    /\ UNCHANGED <<runnerRest, rclock, timeout_sec, exitAt, cmdFound, holder,
                   proc, returncode, poll_result, written, timed_out,
                   exit_code, rResult>>

(* lines 101-104: the drain's select; nothing readable after the whole
   interval leaves the drain with exit_code = poll_result *)
DrainSelect ==
    /\ rpc = "dselect"
    /\ IF Readable
       THEN /\ \E d \in {0, 1} : rclock' = Later(d)
            /\ rpc' = "dread"
            /\ UNCHANGED exit_code
       ELSE /\ rclock' = Later(1)
            /\ exit_code' = CHOOSE c \in poll_result : TRUE
            /\ rpc' = "ret"
    /\ UNCHANGED <<runnerRest, timeout_sec, exitAt, cmdFound, holder, proc,
                   returncode, poll_result, pty, written, output_log, sink,
                   log_file, timed_out, rResult>>

(* lines 105-116: the drain's read; a chunk is logged and the drain goes
   on, an empty read or OSError leaves it with exit_code = poll_result *)
DrainRead ==
    /\ rpc = "dread"
    /\ IF pty # <<>>
       THEN /\ output_log' = Append(output_log, Head(pty))
            /\ sink' = [sink EXCEPT !.stdout = Append(@, Head(pty))]
            /\ log_file' = Append(log_file, Head(pty))
            /\ pty' = Tail(pty)
            /\ rpc' = "dselect"
            /\ UNCHANGED exit_code
       ELSE /\ exit_code' = CHOOSE c \in poll_result : TRUE
            /\ rpc' = "ret"
            /\ UNCHANGED <<output_log, sink, log_file, pty>>
    /\ UNCHANGED <<runnerRest, rclock, timeout_sec, exitAt, cmdFound, holder,
                   proc, returncode, poll_result, written, timed_out, rResult>>

(* lines 121 and 131-140: the descriptors are closed and the AgentResult
   is returned *)
Return ==
    /\ rpc = "ret"
    /\ rResult' = Some(RunnerResult(exit_code, output_log, timed_out))
    /\ rpc' = "done"
    /\ UNCHANGED <<runnerRest, rclock, timeout_sec, exitAt, cmdFound, holder,
                   proc, returncode, poll_result, pty, written, output_log,
                   sink, log_file, timed_out, exit_code>>

(* the command, or the descendant that outlives it, prints a chunk *)
ProcWrite ==
    /\ rpc \notin {"popen", "ret", "done"}
    /\ proc = "running" \/ (proc = "exited" /\ holder)
    /\ written < MaxChunks
    /\ \E c \in Chunks : pty' = Append(pty, c)
    /\ written' = written + 1
    /\ UNCHANGED <<runnerRest, rpc, rclock, timeout_sec, exitAt, cmdFound,
                   holder, proc, returncode, poll_result, output_log, sink,
                   log_file, timed_out, exit_code, rResult>>

(* the command exits by itself *)
ProcExit ==
    /\ rpc \notin {"popen", "ret", "done"}
    /\ proc = "running"
    /\ proc' = "exited"
    /\ \E c \in ExitCodes : returncode' = Code(c)
    /\ exitAt' = rclock
    /\ UNCHANGED <<runnerRest, rpc, rclock, timeout_sec, cmdFound, holder,
                   poll_result, pty, written, output_log, sink, log_file,
                   timed_out, exit_code, rResult>>

RunnerInit ==
    /\ ExpInit /\ HealthParked /\ SuiteParked /\ SchedParked /\ MoreParked
    /\ \E t \in Timeouts, found \in BOOLEAN, h \in BOOLEAN :
          RunnerStart(t, found, h)

RunnerNext ==
    \/ Popen \/ LoopTop \/ Select \/ Read
    \/ DrainSelect \/ DrainRead \/ Return
    \/ ProcWrite \/ ProcExit

SpecRunner == RunnerInit /\ [][RunnerNext]_vars

(* ======================= _wait_for_ready ======================= *)

(* what a step of the health loop leaves alone *)
healthRest == <<expVars, runnerVars, suiteVars, schedVars, moreVars>>

(* the loop of lines 87-90 without the deadline test of line 87 *)
WaitHead_NoDeadline ==
    /\ wpc = "head"
    /\ IF svc = "exited"
       THEN /\ wret' = Some(FALSE)
            /\ ended' = "died"
            /\ wpc' = "done"
            /\ UNCHANGED sentAt
       ELSE /\ sentAt' = wnow
            /\ wpc' = "probe"
            /\ UNCHANGED <<wret, ended>>
    /\ UNCHANGED <<healthRest, wnow, deadline, svc, okAt>>

(* lines 87-93: while time.monotonic() < deadline; a process that has
   exited returns False; otherwise the probe is sent *)
WaitHead ==
    /\ wpc = "head"
    /\ IF wnow >= deadline
       THEN /\ wret' = Some(FALSE)
            /\ ended' = "deadline"
            /\ wpc' = "done"
            /\ UNCHANGED sentAt
       ELSE IF svc = "exited"
       THEN /\ wret' = Some(FALSE)
            /\ ended' = "died"
            /\ wpc' = "done"
            /\ UNCHANGED sentAt
       ELSE /\ sentAt' = wnow
            /\ wpc' = "probe"
            /\ UNCHANGED <<wret, ended>>
    /\ UNCHANGED <<healthRest, wnow, deadline, svc, okAt>>

(* the time a probe with outcome resp can take: a probe timeout takes the
   whole 2.0 s *)
ProbeTimes(resp) ==
    IF resp = "timeout" THEN {ProbeTimeout} ELSE 0..(ProbeTimeout - 1)

(* the outcomes the probe can have: an HTTP status needs the service to
   answer; a service that dies while answering breaks the connection *)
Answers ==
    IF svc = "running" THEN ProbeOutcomes
    ELSE {"refused", "timeout", "disconnect"}

(* lines 93-97: httpx.get returns or raises; 200 returns True,
   ConnectError and TimeoutException are passed over, any other status
   goes on to the sleep, any other exception leaves the method *)
WaitProbe ==
    /\ wpc = "probe"
    /\ \E resp \in Answers :
       \E d \in ProbeTimes(resp) :
          /\ wnow' = wnow + d
          /\ CASE resp = "200" ->
                    /\ okAt' = wnow + d
                    /\ wret' = Some(TRUE)
                    /\ ended' = "ok"
                    /\ wpc' = "done"
               [] resp = "disconnect" ->
                    /\ ended' = "raised"
                    /\ wpc' = "done"
                    /\ UNCHANGED <<okAt, wret>>
               [] OTHER ->
                    /\ wpc' = "sleep"
                    /\ UNCHANGED <<okAt, wret, ended>>
    /\ UNCHANGED <<healthRest, deadline, svc, sentAt>>

(* line 99: time.sleep(0.5) *)
WaitSleep ==
    /\ wpc = "sleep"
    /\ wnow' = wnow + PollInterval
    /\ wpc' = "head"
    /\ UNCHANGED <<healthRest, deadline, svc, sentAt, okAt, wret, ended>>

(* the service process exits while start() waits *)
SvcDies ==
    /\ wpc # "done"
    /\ svc = "running"
    /\ svc' = "exited"
    /\ UNCHANGED <<healthRest, wpc, wnow, deadline, sentAt, okAt, wret,
                   ended>>

HealthInit ==
    /\ ExpInit /\ RunnerParked /\ SuiteParked /\ SchedParked /\ MoreParked
    /\ \E t \in HealthTimeouts : WaitStart(t)

HealthNext == WaitHead \/ WaitProbe \/ WaitSleep \/ SvcDies

SpecHealth == HealthInit /\ [][HealthNext]_vars

(* ======================= ServiceManager used directly ================= *)

(* Bound of the manager model: calls of stop() *)
MaxStops == 2

(* start() that opens the log files of lines 55-56 before the test of
   line 48 *)
MgrStart_OpenFirst ==
    /\ pc = "mgr_idle"
    /\ startCalls = 0
    /\ startCalls' = startCalls + 1
    /\ \E rs \in BOOLEAN :
          /\ runScript' = rs
          /\ IF rs
             THEN /\ svcFiles' = TRUE
                  /\ svcProcess' = "set"
                  /\ leader' = "running"
                  /\ \E tp \in BOOLEAN, ch \in {"none", "running"} :
                        leaderTermProof' = tp /\ child' = ch
                  /\ UNCHANGED leaderCode
             ELSE svcFiles' = TRUE /\ UNCHANGED <<svcProcess, envVars>>
    /\ UNCHANGED <<compVars, pc, unwind, exitVars, sigVars, timerStopped,
                   agentResult, service_ready, test_result, service_crashed,
                   service_exit_code, result, loopVars, storeVars, agentRuns,
                   suiteCalls, stopCalls, stopDone>>

(* ServiceManager.start as its caller sees it: FileNotFoundError without a
   run.sh, otherwise the log files are open and the process group runs *)
MgrStart ==
    /\ pc = "mgr_idle"
    /\ startCalls = 0
    /\ startCalls' = startCalls + 1
    /\ \E rs \in BOOLEAN :
          /\ runScript' = rs
          /\ IF rs
             THEN /\ svcFiles' = TRUE
                  /\ svcProcess' = "set"
                  /\ leader' = "running"
                  /\ \E tp \in BOOLEAN, ch \in {"none", "running"} :
                        leaderTermProof' = tp /\ child' = ch
                  /\ UNCHANGED leaderCode
             ELSE UNCHANGED <<mgrVars, envVars>>
    /\ UNCHANGED <<compVars, pc, unwind, exitVars, sigVars, timerStopped,
                   agentResult, service_ready, test_result, service_crashed,
                   service_exit_code, result, loopVars, storeVars, agentRuns,
                   suiteCalls, stopCalls, stopDone>>

(* the caller calls ServiceManager.stop() *)
MgrStop ==
    /\ pc = "mgr_idle"
    /\ stopCalls < MaxStops
    /\ EnterStop("call")
    /\ UNCHANGED <<compVars, exitVars, sigVars, timerStopped, localVars,
                   mgrVars, envVars, loopVars, storeVars, callVars,
                   stopDone>>

ManagerInit == ExpFresh("mgr_idle") /\ Parked

ManagerNext ==
    \/ MgrStart \/ MgrStop
    \/ StopTerm \/ StopWait \/ StopKill \/ StopClear
    \/ LeaderDies

SpecManager == ManagerInit /\ [][ManagerNext]_vars

(* ======================= SuiteRunner.run ======================= *)

suiteRest == <<expVars, runnerVars, healthVars, schedVars, moreVars>>

(* sequences of at most n lines *)
OutputsUpTo(n) == UNION {[1..k -> PytestLines] : k \in 0..n}

(* re.search(r"(\d+) passed" / r"(\d+) failed", output): the number of the
   first match, 0 without a match *)
FirstCount(out, k) ==
    LET idx == {i \in 1..Len(out) : out[i].kind = k}
    IN  IF idx = {} THEN 0
        ELSE out[CHOOSE i \in idx : \A j \in idx : i <= j].n

(* _parse_pytest_output *)
ParsePytestOutput(out) ==
    [passed |-> FirstCount(out, "passed"),
     failed |-> FirstCount(out, "failed"),
     total |-> FirstCount(out, "passed") + FirstCount(out, "failed")]

IsFailedLine(l) == l.kind = "FAILED"

RECURSIVE Texts(_)
Texts(ls) == IF ls = <<>> THEN <<>> ELSE <<Head(ls).text>> \o Texts(Tail(ls))

(* _parse_failed_tests *)
ParseFailedTests(out) == Texts(SelectSeq(out, IsFailedLine))

(* _extract_error_message: the last line that starts with "E   " *)
ExtractErrorMessage(out) ==
    LET idx == {i \in 1..Len(out) : out[i].kind = "E"}
    IN  IF idx = {} THEN None
        ELSE out[CHOOSE i \in idx : \A j \in idx : i >= j].text

FullSuiteResult(passed, code, counts, failed, err) ==
    [passed |-> passed, exit_code |-> code,
     tests_passed |-> counts.passed, tests_failed |-> counts.failed,
     tests_total |-> counts.total, failed_tests |-> failed,
     error_message |-> err]

(* the exit code of lines 74 and 79 *)
SuiteExitCode(in) == IF in.timeout THEN -1 ELSE in.returncode

(* run with passed taken from the parsed counts *)
SuiteRun_PassedFromCounts(in) ==
    IF ~in.tests_dir
    THEN FullSuiteResult(FALSE, 1, ParsePytestOutput(<<>>), <<>>, None)
    ELSE FullSuiteResult(ParsePytestOutput(in.stdout).failed = 0,
                         SuiteExitCode(in),
                         ParsePytestOutput(in.stdout),
                         ParseFailedTests(in.stdout),
                         IF SuiteExitCode(in) # 0
                         THEN ExtractErrorMessage(in.stdout) ELSE None)

(* SuiteRunner.run, lines 41-101 *)
SuiteRun(in) ==
    IF ~in.tests_dir
    THEN FullSuiteResult(FALSE, 1, ParsePytestOutput(<<>>), <<>>, None)
    ELSE FullSuiteResult(SuiteExitCode(in) = 0,
                         SuiteExitCode(in),
                         ParsePytestOutput(in.stdout),
                         ParseFailedTests(in.stdout),
                         IF SuiteExitCode(in) # 0
                         THEN ExtractErrorMessage(in.stdout) ELSE None)

(* the call returns *)
SuiteCall ==
    /\ suiteOut = Unset
    /\ suiteOut' = Some(SuiteRun(suiteIn))
    /\ UNCHANGED <<suiteRest, suiteIn>>

SuiteInit ==
    /\ ExpInit /\ RunnerParked /\ HealthParked /\ SchedParked /\ MoreParked
    /\ \E dir \in BOOLEAN, to \in BOOLEAN, code \in PytestCodes,
          out \in OutputsUpTo(MaxLines) :
          /\ to => code = 0
          /\ suiteIn = SuiteInput(dir, to, code, out)
    /\ suiteOut = Unset

SuiteNext == SuiteCall

SpecSuite == SuiteInit /\ [][SuiteNext]_vars

(* ======================= start_experiment ======================= *)

schedRest == <<expVars, runnerVars, healthVars, suiteVars, moreVars,
               stopVars>>

(* get_active_sessions: the live sessions whose name starts with bench_ *)
get_active_sessions == tmuxSessions

(* calls that have begun: those that returned and those under way *)
CallsBegun ==
    Len(callLog) + Cardinality({p \in Procs : sched[p].pc # "idle"})

(* the capacity test admitting a call at exactly MAX_CONCURRENT sessions *)
AtCapacity_OffByOne(n) == n > MAX_CONCURRENT

(* line 60: len(active) >= MAX_CONCURRENT *)
AtCapacity(n) == n >= MAX_CONCURRENT

(* lines 59-64: the sessions are counted; at capacity the call returns
   None, otherwise an exp_id is generated *)
CountSessions(p) ==
    /\ sched[p].pc = "idle"
    /\ CallsBegun < MaxCalls
    /\ LET n == Cardinality(get_active_sessions)
       IN  IF AtCapacity(n)
           THEN /\ sched' = [sched EXCEPT ![p] =
                                [pc |-> "idle", active |-> n, exp_id |-> 0]]
                /\ callLog' = Append(callLog, "capacity")
                /\ UNCHANGED nextId
           ELSE /\ sched' = [sched EXCEPT ![p] =
                                [pc |-> "meta", active |-> n,
                                 exp_id |-> nextId]]
                /\ nextId' = nextId + 1
                /\ UNCHANGED callLog
    /\ UNCHANGED <<schedRest, tmuxSessions, metaFiles, errFiles, metaText,
                   launched, statusVars>>

(* lines 82-100, first half: the log directory is created and write_text
   opens meta.json for writing, which creates it empty *)
OpenMeta(p) ==
    /\ sched[p].pc = "meta"
    /\ metaFiles' = metaFiles \cup {sched[p].exp_id}
    /\ sched' = [sched EXCEPT ![p].pc = "fill"]
    /\ UNCHANGED <<schedRest, tmuxSessions, errFiles, nextId, callLog,
                   metaText, launched, statusVars>>

(* start_experiment keeping the metadata in memory, meta.json left empty *)
WriteMeta_InMemory(p) ==
    /\ sched[p].pc = "fill"
    /\ sched' = [sched EXCEPT ![p].pc = "create"]
    /\ UNCHANGED <<schedRest, tmuxSessions, errFiles, nextId, callLog,
                   metaFiles, metaText, launched, statusVars>>

(* line 100, second half: write_text writes the JSON text and closes *)
WriteMeta(p) ==
    /\ sched[p].pc = "fill"
    /\ metaText' = metaText \cup {sched[p].exp_id}
    /\ sched' = [sched EXCEPT ![p].pc = "create"]
    /\ UNCHANGED <<schedRest, tmuxSessions, errFiles, nextId, callLog,
                   metaFiles, launched, statusVars>>

(* lines 130-141: after the stagger sleep, tmux new-session; a failure
   writes tmux_error.txt and returns None *)
NewSession(p) ==
    /\ sched[p].pc = "create"
    /\ \E ok \in BOOLEAN :
          IF ok
          THEN /\ tmuxSessions' = tmuxSessions \cup {sched[p].exp_id}
               /\ launched' = launched \cup {sched[p].exp_id}
               /\ callLog' = Append(callLog, "started")
               /\ UNCHANGED errFiles
          ELSE /\ errFiles' = errFiles \cup {sched[p].exp_id}
               /\ callLog' = Append(callLog, "tmux_error")
               /\ UNCHANGED <<tmuxSessions, launched>>
    /\ sched' = [sched EXCEPT ![p].pc = "idle"]
    /\ UNCHANGED <<schedRest, metaFiles, nextId, metaText, statusVars>>

(* the ids whose directory holds an exit_code.txt *)
HasExitFile == {e[1] : e \in exitFiles}

(* line 119, the EXIT trap of the session's shell: echo $rc > exit_code.txt *)
TrapExitCode ==
    /\ \E id \in tmuxSessions \ HasExitFile : \E rc \in TrapCodes :
          exitFiles' = exitFiles \cup {<<id, rc>>}
    /\ UNCHANGED <<schedRest, sched, tmuxSessions, metaFiles, errFiles,
                   nextId, callLog, metaText, doneFiles, launched, st>>

(* an EXIT trap that writes the sentinel first: date > done.txt before
   echo $rc > exit_code.txt *)
TrapDone_BeforeCode ==
    /\ \E id \in tmuxSessions \ doneFiles :
          doneFiles' = doneFiles \cup {id}
    /\ UNCHANGED <<schedRest, sched, tmuxSessions, metaFiles, errFiles,
                   nextId, callLog, metaText, exitFiles, launched, st>>

(* line 119, the EXIT trap continued: date > done.txt *)
TrapDone ==
    /\ \E id \in (tmuxSessions \cap HasExitFile) \ doneFiles :
          doneFiles' = doneFiles \cup {id}
    /\ UNCHANGED <<schedRest, sched, tmuxSessions, metaFiles, errFiles,
                   nextId, callLog, metaText, exitFiles, launched, st>>

(* a session closes: its shell exited after the trap, or the session was
   killed (stop_all, a kill of the tmux server) wherever it stood *)
SessionEnds ==
    /\ \E id \in tmuxSessions : tmuxSessions' = tmuxSessions \ {id}
    /\ UNCHANGED <<schedRest, sched, metaFiles, errFiles, nextId, callLog,
                   metaText, launched, statusVars>>

(* line 197: the text of exit_code.txt, -1 standing for the "?" used
   when the file is missing *)
ExitCodeRead(id) ==
    IF id \in HasExitFile
    THEN CHOOSE c \in TrapCodes : <<id, c>> \in exitFiles
    ELSE -1

(* an entry of one of the two lists status() returns; status "exit" with
   code c stands for the string exit:<c> *)
Info(id, list, status, code) ==
    [exp_id |-> id, list |-> list, status |-> status, code |-> code]

(* status() asking for the live session before the sentinel *)
Placement_SessionFirst(id, active) ==
    IF id \in active
    THEN Info(id, "running", "running", -1)
    ELSE IF id \in doneFiles
         THEN Info(id, "completed",
                   IF ExitCodeRead(id) = 0 THEN "pass" ELSE "exit",
                   ExitCodeRead(id))
         ELSE Info(id, "completed", "unknown", -1)

(* lines 196-205: the list and the status of one directory *)
Placement(id, active) ==
    IF id \in doneFiles
    THEN Info(id, "completed",
              IF ExitCodeRead(id) = 0 THEN "pass" ELSE "exit",
              ExitCodeRead(id))
    ELSE IF id \in active
         THEN Info(id, "running", "running", -1)
         ELSE Info(id, "completed", "unknown", -1)

StatusIdle == st.pc \in {"idle", "returned", "raised"}

(* line 168: status() lists the live sessions first *)
StatusBegin ==
    /\ StatusIdle
    /\ st' = [StatusFresh EXCEPT !.pc = "glob",
                                 !.active = get_active_sessions]
    /\ UNCHANGED <<schedRest, sched, tmuxSessions, metaFiles, errFiles,
                   nextId, callLog, metaText, exitFiles, doneFiles,
                   launched>>

(* line 171: the orchestrated_* directories that exist now *)
StatusGlob ==
    /\ st.pc = "glob"
    /\ st' = [st EXCEPT !.pc = "visit", !.dirs = metaFiles,
                        !.todo = metaFiles]
    /\ UNCHANGED <<schedRest, sched, tmuxSessions, metaFiles, errFiles,
                   nextId, callLog, metaText, exitFiles, doneFiles,
                   launched>>

(* the first directory of the sorted list not visited yet *)
NextDir == CHOOSE id \in st.todo : \A other \in st.todo : id <= other

(* lines 176-205, one turn of the loop: a directory without meta.json is
   skipped, json.loads raises on a meta.json that is still empty, and
   otherwise the directory goes into one of the two lists *)
StatusVisit ==
    /\ st.pc = "visit"
    /\ st.todo # {}
    /\ LET id == NextDir
           info == Placement(id, st.active)
       IN  IF id \notin metaFiles
           THEN st' = [st EXCEPT !.todo = st.todo \ {id}]
           ELSE IF id \notin metaText
           THEN st' = [st EXCEPT !.pc = "raised"]
           ELSE IF info.list = "running"
           THEN st' = [st EXCEPT !.todo = st.todo \ {id},
                                 !.running = st.running \cup {info}]
           ELSE st' = [st EXCEPT !.todo = st.todo \ {id},
                                 !.completed = st.completed \cup {info}]
    /\ UNCHANGED <<schedRest, sched, tmuxSessions, metaFiles, errFiles,
                   nextId, callLog, metaText, exitFiles, doneFiles,
                   launched>>

(* line 215: the two lists are returned *)
StatusReturn ==
    /\ st.pc = "visit"
    /\ st.todo = {}
    /\ st' = [st EXCEPT !.pc = "returned"]
    /\ UNCHANGED <<schedRest, sched, tmuxSessions, metaFiles, errFiles,
                   nextId, callLog, metaText, exitFiles, doneFiles,
                   launched>>

(* start_experiment is entered while no other call is under way *)
SeqCount ==
    \E p \in Procs :
        /\ \A q \in Procs : sched[q].pc = "idle"
        /\ StatusIdle
        /\ CountSessions(p)

(* status() is entered while no call of start_experiment is under way *)
SeqStatusBegin ==
    /\ \A q \in Procs : sched[q].pc = "idle"
    /\ StatusBegin

SeqOpenMeta == \E p \in Procs : OpenMeta(p)

SeqWriteMeta == \E p \in Procs : WriteMeta(p)

SeqNewSession == \E p \in Procs : NewSession(p)

SchedInit == ExpInit /\ RunnerParked /\ HealthParked /\ SuiteParked
                /\ SchedStart /\ MoreParked

(* launches issued one after another, as start_matrix issues them *)
SchedNext ==
    SeqCount \/ SeqOpenMeta \/ SeqWriteMeta \/ SeqNewSession \/ SessionEnds

SpecSched == SchedInit /\ [][SchedNext]_vars

(* start_experiment is entered by a scheduler process whatever the other
   processes are doing: the module holds no lock *)
ConcCount == \E p \in Procs : CountSessions(p)

(* launches issued by several scheduler processes at once *)
SchedConcNext ==
    ConcCount \/ SeqOpenMeta \/ SeqWriteMeta \/ SeqNewSession \/ SessionEnds

SpecSchedConc == SchedInit /\ [][SchedConcNext]_vars

(* the scheduler process is killed and started again: the locals of its
   call are gone, the files and the tmux server stay *)
SchedulerKilled ==
    /\ \E p \in Procs :
          /\ sched[p] # SchedIdle
          /\ sched' = [sched EXCEPT ![p] = SchedIdle]
          /\ callLog' = IF sched[p].pc = "idle" THEN callLog
                        ELSE Append(callLog, "killed")
    /\ UNCHANGED <<schedRest, tmuxSessions, metaFiles, errFiles, nextId,
                   metaText, launched, statusVars>>

(* the launches of the first MaxDirs experiments, one after another *)
FewSeqCount == nextId <= MaxDirs /\ SeqCount

(* status() and launches taking turns while the sessions run *)
StatusNext ==
    \/ FewSeqCount \/ SeqOpenMeta \/ SeqWriteMeta \/ SeqNewSession
    \/ TrapExitCode \/ TrapDone \/ SessionEnds
    \/ SeqStatusBegin \/ StatusGlob \/ StatusVisit \/ StatusReturn

SpecStatus == SchedInit /\ [][StatusNext]_vars

(* the same, with the scheduler process killed at any point *)
StatusKillNext ==
    \/ FewSeqCount \/ SeqOpenMeta \/ SeqWriteMeta \/ SeqNewSession
    \/ TrapExitCode \/ TrapDone \/ SessionEnds \/ SchedulerKilled
    \/ SeqStatusBegin \/ StatusGlob \/ StatusVisit \/ StatusReturn

SpecStatusKill == SchedInit /\ [][StatusKillNext]_vars

(* the launches of the first MaxDirs experiments, by any process *)
FewConcCount == nextId <= MaxDirs /\ ConcCount

(* status() run from another process while launches are under way *)
StatusConcNext ==
    \/ FewConcCount \/ SeqOpenMeta \/ SeqWriteMeta \/ SeqNewSession
    \/ TrapExitCode \/ TrapDone \/ SessionEnds
    \/ StatusBegin \/ StatusGlob \/ StatusVisit \/ StatusReturn

SpecStatusConc == SchedInit /\ [][StatusConcNext]_vars

(* ---------------- stop_all ---------------- *)

(* what a step of stop_all leaves alone besides the scheduler's variables *)
stopRest == <<expVars, runnerVars, healthVars, suiteVars, moreVars>>

(* lines 42-45: the session names tmux list-sessions prints *)
ListSessions ==
    {SessionName("bench_", i) : i \in tmuxSessions}
        \cup {SessionName("", o) : o \in others}

(* get_active_sessions without the filter of line 48 *)
BenchOnly_All(names) == names

(* line 48: [s for s in ... if s.startswith("bench_")] *)
BenchOnly(names) == {n \in names : n.prefix = "bench_"}

(* line 240: active = get_active_sessions() *)
StopAllList ==
    /\ stop.pc \in {"idle", "done"}
    /\ stop' = [pc |-> "kill", active |-> BenchOnly(ListSessions),
                sent |-> {}]
    /\ UNCHANGED <<stopRest, sched, metaFiles, errFiles, nextId, callLog,
                   metaText, launched, statusVars,
                   tmuxSessions, others>>

(* lines 241-243: tmux kill-session -t session for the next listed
   session; a session that is gone already makes tmux fail, which is not
   looked at *)
KillSession ==
    /\ stop.pc = "kill"
    /\ \E n \in stop.active \ stop.sent :
          /\ stop' = [stop EXCEPT !.sent = @ \cup {n}]
          /\ IF n.prefix = "bench_"
             THEN tmuxSessions' = tmuxSessions \ {n.id} /\ UNCHANGED others
             ELSE others' = others \ {n.id} /\ UNCHANGED tmuxSessions
    /\ UNCHANGED <<stopRest, sched, metaFiles, errFiles, nextId, callLog,
                   metaText, launched, statusVars>>

(* line 244: every listed session was handled, stop_all returns *)
StopAllReturn ==
    /\ stop.pc = "kill"
    /\ stop.active = stop.sent
    /\ stop' = [stop EXCEPT !.pc = "done"]
    /\ UNCHANGED <<stopRest, sched, metaFiles, errFiles, nextId, callLog,
                   metaText, launched, statusVars,
                   tmuxSessions, others>>

(* somebody opens or closes a tmux session that is not an experiment *)
OtherSession ==
    /\ \E o \in 1..MaxOthers :
          others' = IF o \in others THEN others \ {o} ELSE others \cup {o}
    /\ UNCHANGED <<stopRest, sched, metaFiles, errFiles, nextId, callLog,
                   metaText, launched, statusVars,
                   tmuxSessions, stop>>

(* launches, sessions that end by themselves and calls of stop_all *)
StopAllNext ==
    \/ FewSeqCount \/ SeqOpenMeta \/ SeqWriteMeta \/ SeqNewSession
    \/ TrapExitCode \/ TrapDone \/ SessionEnds \/ OtherSession
    \/ StopAllList \/ KillSession \/ StopAllReturn

SpecStopAll == SchedInit /\ [][StopAllNext]_vars

(* =================== the results store ==================== *)

resultsRest == <<expVars, runnerVars, healthVars, suiteVars, schedVars,
                 limiterVars>>

(* the two pieces append writes for the n-th result of writer w:
   json.dumps(result.to_dict()) and "\n" *)
JsonText(w, n) == [w |-> w, n |-> n, part |-> "json"]

NewLine(w, n) == [w |-> w, n |-> n, part |-> "nl"]

(* line 48: open(results_file, "a"): the file is opened with O_APPEND,
   created if missing, never truncated *)
AppendOpen(w) ==
    /\ writers[w].pc = "idle"
    /\ writers[w].n < MaxAppends
    /\ writers' = [writers EXCEPT ![w].pc = "open",
                                  ![w].offset = Len(resultsFile)]
    /\ UNCHANGED <<resultsRest, resultsFile, loaded>>

(* line 49: f.write(...) puts the line into the buffer of the file
   object; the file itself is not written yet *)
AppendWrite(w) ==
    /\ writers[w].pc = "open"
    /\ writers' = [writers EXCEPT ![w].pc = "buffered"]
    /\ UNCHANGED <<resultsRest, resultsFile, loaded>>

(* the pieces of file from position from + 1 on *)
From(file, from) ==
    IF from >= Len(file) THEN <<>> ELSE SubSeq(file, from + 1, Len(file))

(* a file opened without O_APPEND: the line is written at the position
   the file ended at when it was opened *)
AppendClose_AtOpenOffset(w) ==
    /\ writers[w].pc = "buffered"
    /\ LET n == writers[w].n + 1
           at == writers[w].offset
       IN  /\ resultsFile' = SubSeq(resultsFile, 1, at)
                               \o <<JsonText(w, n), NewLine(w, n)>>
                               \o From(resultsFile, at + 2)
           /\ writers' = [writers EXCEPT ![w] =
                              [pc |-> "idle", n |-> n, offset |-> 0]]
    /\ UNCHANGED <<resultsRest, loaded>>

(* the end of the with block of lines 48-49: close() flushes the buffer
   in one write, which O_APPEND places at the end the file has then *)
AppendClose(w) ==
    /\ writers[w].pc = "buffered"
    /\ LET n == writers[w].n + 1
       IN  /\ resultsFile' = resultsFile
                               \o <<JsonText(w, n), NewLine(w, n)>>
           /\ writers' = [writers EXCEPT ![w] =
                              [pc |-> "idle", n |-> n, offset |-> 0]]
    /\ UNCHANGED <<resultsRest, loaded>>

(* `for line in f`: the file split after every newline; pieces after
   the last newline form a last line *)
RECURSIVE SplitLines(_, _)
SplitLines(file, line) ==
    IF file = <<>>
    THEN IF line = <<>> THEN <<>> ELSE <<line>>
    ELSE IF Head(file).part = "nl"
         THEN <<line>> \o SplitLines(Tail(file), <<>>)
         ELSE SplitLines(Tail(file), Append(line, Head(file)))

FileLines(file) == SplitLines(file, <<>>)

(* lines 57-60: blank lines are skipped and json.loads parses the others;
   it raises on a line that is not one JSON text *)
RECURSIVE ParseLines(_)
ParseLines(lines) ==
    IF lines = <<>>
    THEN LoadResult(TRUE, <<>>)
    ELSE LET rest == ParseLines(Tail(lines))
             line == Head(lines)
         IN  IF line = <<>> THEN rest
             ELSE IF Len(line) # 1 \/ ~rest.ok
                  THEN LoadResult(FALSE, <<>>)
                  ELSE LoadResult(TRUE,
                          <<<<line[1].w, line[1].n>>>> \o rest.records)

(* lines 51-61: load_all *)
LoadAll ==
    /\ loaded' = ParseLines(FileLines(resultsFile))
    /\ UNCHANGED <<resultsRest, resultsFile, writers>>

AnyAppendOpen == \E w \in Writers : AppendOpen(w)

AnyAppendWrite == \E w \in Writers : AppendWrite(w)

AnyAppendClose == \E w \in Writers : AppendClose(w)

ResultsInit == ExpInit /\ RunnerParked /\ HealthParked /\ SuiteParked
                  /\ SchedParked /\ ResultsStart /\ LimiterParked

ResultsNext == AnyAppendOpen \/ AnyAppendWrite \/ AnyAppendClose \/ LoadAll

SpecResults == ResultsInit /\ [][ResultsNext]_vars

(* ==================== the rate limiter ==================== *)

limiterRest == <<expVars, runnerVars, healthVars, suiteVars, schedVars,
                 resultsVars>>

Min(x, y) == IF x <= y THEN x ELSE y

Max(x, y) == IF x >= y THEN x ELSE y

(* lines 41-42: cleanup keeps the timestamps not older than window_start *)
cleanup(timestamps, window_start) ==
    SelectSeq(timestamps, LAMBDA ts : ts >= window_start)

(* lines 56-59: refill; with tokens kept multiplied by window_seconds,
   elapsed * max_requests / window_seconds becomes elapsed * max_requests
   and the cap burst_size * window_seconds *)
refill(state, now, config) ==
    TokenBucketState(
        Min(config.burst_size * config.window_seconds,
            state.tokens + (now - state.last_refill) * config.max_requests),
        now)

(* int(state.tokens) *)
IntTokens(state, config) == state.tokens \div config.window_seconds

(* lines 114-120 and 174-180: the state of the key, created when
   missing, after cleanup *)
SlidingState(state, config, now) ==
    SlidingWindowState(
        cleanup(state.timestamps, now - config.window_seconds))

(* lines 137-145 and 208-216: the state of the key, created full when
   missing, after refill *)
BucketState(state, config, now) ==
    refill(IF state.kind = "none"
           THEN TokenBucketState(
                    config.burst_size * config.window_seconds, now)
           ELSE state,
           now, config)

(* what a call does to the state of its key and what it returns *)
Outcome(state, allowed, remaining) ==
    [state |-> state, allowed |-> allowed, remaining |-> remaining]

(* lines 111-132: _check_sliding_window *)
check_sliding_window(state, config, now, cost) ==
    LET st1 == SlidingState(state, config, now)
        current_count == Len(st1.timestamps)
    IN  Outcome(st1, current_count + cost <= config.max_requests,
                Max(0, config.max_requests - current_count))

(* a check of the token bucket that takes the tokens it finds enough *)
check_token_bucket_Taking(state, config, now, cost) ==
    LET st1 == BucketState(state, config, now)
        allowed == st1.tokens >= cost * config.window_seconds
    IN  Outcome(IF allowed
                THEN TokenBucketState(
                         st1.tokens - cost * config.window_seconds, now)
                ELSE st1,
                allowed, IntTokens(st1, config))

(* lines 134-156: _check_token_bucket *)
check_token_bucket(state, config, now, cost) ==
    LET st1 == BucketState(state, config, now)
    IN  Outcome(st1, st1.tokens >= cost * config.window_seconds,
                IntTokens(st1, config))

(* lines 98-109: check *)
check(state, config, now, cost) ==
    IF config.algorithm = "sliding_window"
    THEN check_sliding_window(state, config, now, cost)
    ELSE check_token_bucket(state, config, now, cost)

(* `for _ in range(cost): state.add(now)` *)
AddTimes(timestamps, now, cost) ==
    timestamps \o [i \in 1..cost |-> now]

(* the admission test of the sliding window taking every cost for 1 *)
OverLimit_CostOne(current_count, cost, config) ==
    current_count + 1 > config.max_requests

(* line 184: current_count + cost > config.max_requests *)
OverLimit(current_count, cost, config) ==
    current_count + cost > config.max_requests

(* lines 171-203: _consume_sliding_window *)
consume_sliding_window(state, config, now, cost) ==
    LET st1 == SlidingState(state, config, now)
        current_count == Len(st1.timestamps)
        added == AddTimes(st1.timestamps, now, cost)
    IN  IF OverLimit(current_count, cost, config)
        THEN Outcome(st1, FALSE, 0)
        ELSE Outcome(SlidingWindowState(added), TRUE,
                     config.max_requests - Len(added))

(* lines 205-229: _consume_token_bucket, with TokenBucketState.consume of
   lines 61-65 *)
consume_token_bucket(state, config, now, cost) ==
    LET st1 == BucketState(state, config, now)
        allowed == st1.tokens >= cost * config.window_seconds
        st2 == IF allowed
               THEN TokenBucketState(
                        st1.tokens - cost * config.window_seconds,
                        st1.last_refill)
               ELSE st1
    IN  Outcome(st2, allowed, IntTokens(st2, config))

(* lines 158-169: consume *)
consume(state, config, now, cost) ==
    IF config.algorithm = "sliding_window"
    THEN consume_sliding_window(state, config, now, cost)
    ELSE consume_token_bucket(state, config, now, cost)

(* one dict of states for all configs, indexed by the key alone *)
WhereKept_KeyOnly(name, key) == <<"a", key>>

(* the entry of the dicts a call on (name, key) works on:
   self.sliding_window_states[name][key] or
   self.token_bucket_states[name][key] *)
WhereKept(name, key) == <<name, key>>

(* the call check(name, key, cost) *)
LimiterCheck ==
    /\ lcalls < MaxOps
    /\ lcalls' = lcalls + 1
    /\ \E name \in Names, key \in Keys, cost \in Costs :
          LET at == WhereKept(name, key)
              r == check(states[at], configs[name], lnow, cost)
          IN  /\ states' = [states EXCEPT ![at] = r.state]
              /\ lres' = Call("check", name, key, r.allowed)
    /\ UNCHANGED <<limiterRest, lnow, configs>>

(* the call consume(name, key, cost) *)
LimiterConsume ==
    /\ lcalls < MaxOps
    /\ lcalls' = lcalls + 1
    /\ \E name \in Names, key \in Keys, cost \in Costs :
          LET at == WhereKept(name, key)
              r == consume(states[at], configs[name], lnow, cost)
          IN  /\ states' = [states EXCEPT ![at] = r.state]
              /\ lres' = Call("consume", name, key, r.allowed)
    /\ UNCHANGED <<limiterRest, lnow, configs>>

(* lines 231-243: reset deletes the state of the key *)
LimiterReset ==
    /\ lcalls < MaxOps
    /\ lcalls' = lcalls + 1
    /\ \E name \in Names, key \in Keys :
          /\ states' = [states EXCEPT ![WhereKept(name, key)] = NoState]
          /\ lres' = Call("reset", name, key, TRUE)
    /\ UNCHANGED <<limiterRest, lnow, configs>>

(* time passes *)
Tick ==
    /\ lnow < MaxTime
    /\ lnow' = lnow + 1
    /\ UNCHANGED <<limiterRest, configs, states, lres, lcalls>>

LimiterInit ==
    /\ ExpInit /\ RunnerParked /\ HealthParked /\ SuiteParked
    /\ SchedParked /\ ResultsParked
    /\ \E m \in {1, MaxRequests}, w \in {1, MaxWindow} : LimiterStart(m, w)

LimiterNext == LimiterCheck \/ LimiterConsume \/ LimiterReset \/ Tick

SpecLimiter == LimiterInit /\ [][LimiterNext]_vars

(* ======================= properties ======================= *)

Records == {jsonl[i] : i \in 1..Len(jsonl)}
Statuses == {"pass", "fail", "timeout", "error"}
Launched == leader # "none"
NoSignal == firstSig = 0
CrashPrefix == "Service crashed during tests (exit code: "

(* C1: every experiment that got as far as running the agent has exactly
   one terminal status recorded in results.jsonl when its process ends,
   whatever signals were delivered. *)
C1_ExactlyOneStatus ==
    (pc = "exited" /\ agentRuns > 0) =>
        /\ Len(jsonl) = 1
        /\ jsonl[1].status \in Statuses

(* C2: the status recorded by the verdict step (the save of line 168) is
   determined by (suite passed, service observed not running after the
   suite): error when crashed and not passed, pass when passed, fail when
   neither; the error message carries the service's exit code. *)
C2_VerdictIsFunctionOfPair ==
    \A r \in Records :
        r.site = 168 =>
            /\ suiteCalls = 1
            /\ (service_crashed /\ ~test_result.passed) =>
                   /\ r.status = "error"
                   /\ r.error_message[2] = service_exit_code
                   /\ service_exit_code # NoCode
            /\ test_result.passed => r.status = "pass"
            /\ (~service_crashed /\ ~test_result.passed) => r.status = "fail"

C2_Witness ==
    /\ pc = "exited"
    /\ \E r \in Records : r.site = 168 /\ r.status = "error"
    /\ \E r \in Records : r.site = 168 /\ r.error_message[2] = Code(1)

(* C3 as stated: whenever the service was observed not running when the
   suite returned, the verdict is error, also when the suite passed. *)
C3_CrashAlwaysError ==
    \A r \in Records :
        (r.site = 168 /\ service_crashed) => r.status = "error"

(* C3 amended: a service observed not running when the suite returned
   gives the verdict error, with a message that names the crash and the
   service's exit code, when the suite did not pass; when the suite exited
   with code 0 the verdict is pass. *)
C3_CrashErrorUnlessPassed ==
    \A r \in Records :
        (r.site = 168 /\ service_crashed) =>
            IF test_result.exit_code = 0
            THEN r.status = "pass" /\ r.error_message = <<>>
            ELSE /\ r.status = "error"
                 /\ r.error_message[1] = CrashPrefix
                 /\ r.error_message[2] = service_exit_code
                 /\ service_exit_code \in {Code(c) : c \in SvcExitCodes}

C3_Witness ==
    /\ service_crashed
    /\ test_result.exit_code # 0
    /\ \E r \in Records : r.site = 168 /\ r.status = "error"

(* C4: when the agent run reports timed_out the service is never launched,
   no health probe is sent and the suite is never invoked, and the
   experiment returns with status timeout recorded; service.start is only
   ever called after agent.run has returned. *)
C4_TimeoutEndsExperiment ==
    /\ (agentRuns > 0 /\ agentResult.timed_out) =>
           /\ startCalls = 0 /\ ~Launched /\ probes = 0 /\ suiteCalls = 0
           /\ pc \in {"to_return", "main_exit"} =>
                  \E r \in Records : r.status = "timeout" /\ r.site = 108
           /\ (pc = "exited" /\ NoSignal) =>
                  /\ Len(jsonl) = 1
                  /\ jsonl[1].status = "timeout"
                  /\ result = "timeout"
    /\ (startCalls > 0 \/ Launched) => (agentRuns = 1 /\ pc # "agent_run")

C4_Witness ==
    /\ pc = "exited"
    /\ agentRuns = 1 /\ agentResult.timed_out
    /\ Len(jsonl) = 1 /\ jsonl[1].status = "timeout"

(* C5: the suite is invoked only after service.start returned True; when
   it returned False the suite is never invoked and the experiment returns
   with status error, message "Service failed to start", recorded. *)
C5_SuiteOnlyWhenReady ==
    /\ (suiteCalls > 0 \/ pc = "suite") => service_ready = Some(TRUE)
    /\ service_ready = Some(FALSE) =>
           /\ suiteCalls = 0
           /\ (pc \in {"nr_return", "main_exit"}
                  \/ (pc \in InStop /\ unwind = "return")) =>
                  \E r \in Records :
                      /\ r.status = "error" /\ r.site = 132
                      /\ r.error_message = <<"Service failed to start">>
           /\ (pc = "exited" /\ NoSignal) =>
                  /\ Len(jsonl) = 1
                  /\ jsonl[1].status = "error"
                  /\ jsonl[1].error_message = <<"Service failed to start">>

C5_Witness ==
    /\ pc = "exited"
    /\ service_ready = Some(FALSE)
    /\ suiteCalls = 0
    /\ Len(jsonl) = 1 /\ jsonl[1].site = 132

(* C6: when the workspace has no run.sh after the agent run, start raises
   without any health probe and the experiment ends with status error
   recorded. *)
C6_MissingScriptRecordsError ==
    (pc = "exited" /\ startCalls > 0 /\ ~runScript /\ NoSignal) =>
        /\ probes = 0
        /\ Len(jsonl) = 1
        /\ jsonl[1].status = "error"

(* C7: no lower-level failure (agent binary not found, run.sh missing,
   health deadline exceeded, suite timeout, suite command not found) leaves
   the experiment as an unhandled exception without a recorded status. *)
C7_EveryFailureRecorded ==
    (pc = "exited" /\ agentRuns > 0 /\ NoSignal) =>
        /\ ~uncaught
        /\ Len(jsonl) >= 1
        /\ \A r \in Records : r.status \in Statuses

(* C8: once the service process has been launched, stop() has run to its
   end before the experiment process ends, and no process of the service
   is left running. *)
C8_NoServiceLeftRunning ==
    (pc = "exited" /\ Launched) =>
        /\ stopDone >= 1
        /\ leader # "running"
        /\ child # "running"

(* C9: in every execution that launched the service, stop() has completed
   before the experiment's verdict is persisted, on the not-ready path as
   on the path through the suite. *)
C9_StopBeforeVerdict ==
    (Launched /\ \E r \in Records : r.site \in {132, 168}) => stopDone >= 1

(* C10: the first signal delivered is the one acted on: when the process
   ends through the handler the timer is stopped, exactly one signal
   record is persisted and it names the first signal, and the exit code is
   128 + its number; no other delivery persists anything. *)
C10_FirstSignalActedOn ==
    /\ Cardinality({i \in 1..Len(jsonl) : jsonl[i].site = 81}) <= 1
    /\ (pc = "exited" /\ handled) =>
           /\ timerStopped
           /\ exitCode = Code(128 + firstSig)
           /\ \E r \in Records :
                  /\ r.site = 81 /\ r.status = "error"
                  /\ r.error_message[2] = SignalName(firstSig)
                  /\ r.error_message[3] = firstSig

(* ---------------- run_with_streaming ---------------- *)

Returned == rpc = "done"
TheResult == CHOOSE r \in rResult : TRUE

(* the class a caller can read off a result: the timed_out flag, then the
   exit code 127 with the "Command not found" text that lines 123-129
   produce, a normal exit otherwise *)
ResultClass(r) ==
    IF r.timed_out THEN "timed_out"
    ELSE IF r.exit_code = 127 /\ r.stdout = <<NotFoundMsg>> THEN "not_found"
    ELSE "exit"

(* C11: a returned result is in exactly one of the classes normal exit
   (carrying the command's exit code), timed_out and not-found, and the
   class matches what happened: a missing command is reported as not-found
   and never as timed out, and a command that was found and ran is never
   reported as not-found. *)
C11_ThreeClasses ==
    Returned =>
        /\ ~cmdFound => ResultClass(TheResult) = "not_found"
        /\ TheResult.timed_out => cmdFound
        /\ cmdFound /\ ~TheResult.timed_out =>
              /\ ResultClass(TheResult) = "exit"
              /\ TheResult.exit_code \in returncode

(* C12: a command that is still running when elapsed exceeds timeout_sec
   is killed at the next loop head, so the call is never more than one
   select interval past the deadline while the command runs, it never
   returns leaving the command running, and it returns timed_out = true. *)
C12_TimeoutKills ==
    /\ (proc = "running" /\ rclock > timeout_sec) =>
          /\ rpc \in {"read", "top"}
          /\ poll_result = NoCode
    /\ proc = "running" => rclock <= timeout_sec + 1
    /\ proc = "killed" => timed_out /\ rclock <= timeout_sec + 1
    /\ (Returned /\ cmdFound) => proc # "running"
    /\ (Returned /\ proc = "killed") => TheResult.timed_out

(* a command that outlived its deadline was killed and reported *)
C12_Witness ==
    /\ Returned
    /\ proc = "killed"
    /\ TheResult.timed_out
    /\ rclock = timeout_sec + 1

(* C13: the drain that follows the command's exit is bounded by the
   deadline: no chunk is read by the drain later than one select interval
   after the deadline check would have fired, also when a surviving
   descendant keeps printing. *)
C13_DrainBounded ==
    rpc = "dread" => rclock <= timeout_sec + 2

(* ---------------- _wait_for_ready ---------------- *)

(* C14 as stated: start returns True only if a probe returned 200 before
   the health deadline; once the deadline has passed without a 200 it
   returns False and no further probe is sent. *)
C14_ReadyOnlyBeforeDeadline ==
    /\ wret = Some(TRUE) => (okAt >= 0 /\ okAt < deadline)
    /\ sentAt < deadline
    /\ ended = "deadline" => wret = Some(FALSE)

(* C14, amended: start returns True only if a probe that was sent before
   the health deadline returned 200, the answer arriving less than one
   probe timeout after the deadline at the latest; no probe is sent once
   the deadline has passed, and the loop head that finds the deadline
   passed returns False. *)
C14_ReadyOnlyOn200 ==
    /\ wret = Some(TRUE) =>
          /\ ended = "ok"
          /\ okAt >= 0
          /\ okAt < deadline + ProbeTimeout
    /\ sentAt < deadline
    /\ ended = "deadline" =>
          /\ wret = Some(FALSE)
          /\ okAt = -1
          /\ wnow >= deadline

(* a 200 that answers a probe sent before the deadline and arrives after
   it makes start return True *)
C14_Witness ==
    /\ wret = Some(TRUE)
    /\ sentAt < deadline
    /\ okAt >= deadline

(* C15: when the service process has exited before any probe returned
   200, start returns False, and it does so at the loop head before the
   deadline instead of polling on. *)
C15_DeadServiceEndsStart ==
    /\ (wpc = "done" /\ svc = "exited") => wret = Some(FALSE)
    /\ ended = "died" => (svc = "exited" /\ okAt = -1)

(* C16: the health loop ends in exactly one of three ways, a 200, the
   exit of the process or the deadline; a refused connection, a probe
   timeout or another status never ends it. *)
C16_LoopEndsThreeWays ==
    /\ wpc = "done" => ended \in {"ok", "died", "deadline"}
    /\ ended = "ok" => okAt >= 0
    /\ ended = "deadline" => wnow >= deadline

(* ---------------- ServiceManager.stop ---------------- *)

(* C17: stop() never raises, and a call that finds no process (none was
   started, or an earlier stop() returned) sends no signal and changes
   nothing; every stop() that returns leaves no process and no open log
   file behind, so a second call is such a call. *)
C17_StopIdempotent ==
    [][ /\ ~uncaught'
        /\ (pc = "stop_term" /\ pc' # pc /\ svcProcess = "None") =>
              (pc' = "stop_clear" /\ UNCHANGED <<mgrVars, envVars>>)
        /\ (pc = "stop_clear" /\ pc' # pc /\ svcProcess = "None"
               /\ ~svcFiles) =>
              UNCHANGED <<mgrVars, envVars>>
        /\ (pc = "stop_clear" /\ pc' # pc) =>
              (svcProcess' = "None" /\ ~svcFiles')
      ]_vars

(* stop() returned twice for a service that had been started *)
C17_Witness ==
    /\ pc = "mgr_idle"
    /\ startCalls = 1 /\ runScript
    /\ stopDone = 2

(* C18: when stop() has returned, no process of the service's process
   group is alive, neither the leader nor a descendant that ignores
   SIGTERM. *)
C18_GroupDeadAfterStop ==
    (pc = "mgr_idle" /\ stopDone >= 1) =>
        (leader # "running" /\ child # "running")

(* ---------------- SuiteRunner.run ---------------- *)

TheSuiteResult == CHOOSE r \in suiteOut : TRUE

(* C19: the returned passed is true exactly when the tests directory
   exists and the pytest process ended by itself with exit code 0,
   whatever counts and failed-test names were parsed from its output; a
   missing tests directory returns exit_code 1 and a suite timeout
   exit_code -1, both with passed false. *)
C19_PassedIffExitZero ==
    suiteOut # Unset =>
        /\ TheSuiteResult.passed <=>
              (suiteIn.tests_dir /\ ~suiteIn.timeout
                  /\ suiteIn.returncode = 0)
        /\ TheSuiteResult.passed <=> (TheSuiteResult.exit_code = 0)
        /\ ~suiteIn.tests_dir =>
              (TheSuiteResult.exit_code = 1 /\ ~TheSuiteResult.passed)
        /\ (suiteIn.tests_dir /\ suiteIn.timeout) =>
              (TheSuiteResult.exit_code = -1 /\ ~TheSuiteResult.passed)

(* pytest exited 0 although its output counts a failed test and names
   one: the result passed *)
C19_Witness ==
    /\ suiteOut # Unset
    /\ TheSuiteResult.passed
    /\ TheSuiteResult.tests_failed > 0
    /\ TheSuiteResult.failed_tests # <<>>

(* ---------------- start_experiment ---------------- *)

(* C20: with launches issued one after another the live bench_ sessions
   never exceed MAX_CONCURRENT; a call that counts MAX_CONCURRENT sessions
   returns None at once, with no exp_id, no meta.json and no session of
   its own, and a call that counts fewer is admitted: it goes on to create
   its session and returns None only when tmux fails to create it. *)
C20_CapacityRespected ==
    /\ Cardinality(tmuxSessions) <= MAX_CONCURRENT
    /\ \A p \in Procs :
          /\ sched[p].pc # "idle" =>
                (sched[p].active < MAX_CONCURRENT /\ sched[p].exp_id > 0)
          /\ (sched[p].pc = "idle" /\ sched[p].exp_id = 0) =>
                (sched[p].active = 0 \/ sched[p].active >= MAX_CONCURRENT)
    /\ Cardinality({i \in 1..Len(callLog) : callLog[i] # "capacity"})
          = nextId - 1 - Cardinality({p \in Procs : sched[p].pc # "idle"})
    /\ tmuxSessions \subseteq metaFiles
    /\ Cardinality(metaFiles) <= nextId - 1

(* a launch was refused at capacity and a later one, after a session had
   ended, was started *)
C20_Witness ==
    \E i, j \in 1..Len(callLog) :
        /\ i < j
        /\ callLog[i] = "capacity"
        /\ callLog[j] = "started"
        /\ Cardinality(tmuxSessions) = MAX_CONCURRENT

(* C21: when start_experiment is called by several scheduler processes at
   once, the live bench_ sessions still never exceed MAX_CONCURRENT: no
   two callers are both admitted into the last free slot *)
C21_CapacityUnderConcurrency ==
    Cardinality(get_active_sessions) <= MAX_CONCURRENT

(* the entries status() holds for one directory, over both lists *)
EntriesOf(s, id) == {e \in s.running \cup s.completed : e.exp_id = id}

(* C22: every directory with a meta.json is put by status() into exactly
   one of the two lists: completed, with the exit code of exit_code.txt,
   when done.txt exists, whether or not the session is alive; otherwise
   running when the session is among the listed sessions; otherwise
   completed with status unknown *)
C22_ExactlyOneList ==
    [][ /\ st'.pc # "raised"
        /\ \A id \in st.todo \ st'.todo :
             st'.pc = "visit" =>
               /\ id \in metaFiles
               /\ EntriesOf(st, id) = {}
               /\ Cardinality(EntriesOf(st', id)) = 1
               /\ \A e \in EntriesOf(st', id) :
                     /\ (e \in st'.running) # (e \in st'.completed)
                     /\ id \in doneFiles =>
                           /\ e \in st'.completed
                           /\ <<id, e.code>> \in exitFiles
                           /\ e.status = IF e.code = 0 THEN "pass"
                                                       ELSE "exit"
                     /\ (id \notin doneFiles /\ id \in st.active) =>
                           (e \in st'.running /\ e.status = "running")
                     /\ (id \notin doneFiles /\ id \notin st.active) =>
                           (e \in st'.completed /\ e.status = "unknown")
        /\ st'.pc = "returned" =>
              \A id \in st'.dirs : Cardinality(EntriesOf(st', id)) = 1
      ]_vars

(* status() returned one experiment as completed with its exit code while
   its session was among the listed ones, and another as unknown *)
C22_Witness ==
    /\ st.pc = "returned"
    /\ \E e \in st.completed :
          e.status \in {"pass", "exit"} /\ e.exp_id \in st.active
    /\ \E e \in st.completed : e.status = "unknown"

(* C23: status() reports unknown only for an experiment whose session was
   started and has died without writing done.txt; an experiment that is
   being launched or is running is never reported unknown, also while
   start_experiment runs at the same time *)
C23_UnknownOnlyForDead ==
    [][ \A e \in st'.completed \ st.completed :
            e.status = "unknown" =>
               /\ e.exp_id \in launched
               /\ e.exp_id \notin tmuxSessions
               /\ e.exp_id \notin doneFiles
               /\ \A p \in Procs :
                     ~(sched[p].pc # "idle" /\ sched[p].exp_id = e.exp_id)
      ]_vars

(* C24: what status() reports is determined by the files (meta.json,
   exit_code.txt, done.txt) and the sessions it listed, never by anything
   a scheduler process remembers: with scheduler processes killed and
   started again at any point, every launched experiment has its
   meta.json, is among the directories status() visits, and is reported
   from the files and the session list alone *)
C24_OnlyFilesAndSessions ==
    [][ /\ launched' \subseteq metaText'
        /\ (st.pc = "glob" /\ st'.pc = "visit") => launched \subseteq st'.dirs
        /\ st'.pc = "returned" =>
              \A id \in st'.dirs : EntriesOf(st', id) # {}
        /\ \A e \in st'.running \cup st'.completed :
              /\ e.exp_id \in metaText'
              /\ e.status \in {"pass", "exit"} =>
                    (e.exp_id \in doneFiles'
                        /\ <<e.exp_id, e.code>> \in exitFiles')
              /\ e.status = "running" => e.exp_id \in st'.active
              /\ e.status = "unknown" => e.exp_id \notin st'.active
      ]_vars

(* a scheduler process was killed inside a launch, no process remembers
   anything, and status() has returned a launched experiment as running *)
C24_Witness ==
    /\ st.pc = "returned"
    /\ \E i \in 1..Len(callLog) : callLog[i] = "killed"
    /\ \A p \in Procs : sched[p] = SchedIdle
    /\ \E e \in st.running : e.exp_id \in launched

(* the records of writer w among records, in their order *)
RecordsOf(records, w) == SelectSeq(records, LAMBDA r : r[1] = w)

(* C25: the results store is append-only under concurrency: whatever the
   interleaving of appends by several processes, results.jsonl holds
   exactly one intact line per append, no earlier line is modified or
   removed, and load_all returns the records of one writer in that
   writer's order *)
C25_AppendOnly ==
    /\ [](LET lines == FileLines(resultsFile)
              all == ParseLines(lines)
          IN  /\ \A i \in 1..Len(lines) :
                    Len(lines[i]) = 1 /\ lines[i][1].part = "json"
              /\ all.ok
              /\ \A w \in Writers :
                    RecordsOf(all.records, w)
                       = [k \in 1..writers[w].n |-> <<w, k>>]
              /\ loaded.ok
              /\ \A w \in Writers : \E m \in 0..writers[w].n :
                    RecordsOf(loaded.records, w) = [k \in 1..m |-> <<w, k>>])
    /\ [][ /\ Len(resultsFile) <= Len(resultsFile')
            /\ SubSeq(resultsFile', 1, Len(resultsFile)) = resultsFile
          ]_vars

(* a writer has appended all its results, one of its lines while another
   writer, which has appended before, had the file open and its line
   buffered, and load_all has returned records of both *)
C25_Witness ==
    \E w, v \in Writers :
        /\ writers[w].pc = "idle" /\ writers[w].n = MaxAppends
        /\ writers[v].pc = "buffered" /\ writers[v].n > 0
        /\ writers[v].offset < Len(resultsFile)
        /\ resultsFile[writers[v].offset + 1].w = w
        /\ RecordsOf(loaded.records, w) # <<>>
        /\ RecordsOf(loaded.records, v) # <<>>

(* C26: every step is one-shot: the agent is launched at most once,
   ServiceManager.start is called at most once and the suite is run at
   most once, each only after the step before it, and no failure makes a
   step or an earlier one run again *)
C26_StepsRunOnce ==
    /\ agentRuns <= 1 /\ startCalls <= 1 /\ suiteCalls <= 1
    /\ startCalls <= agentRuns
    /\ suiteCalls <= startCalls
    /\ pc = "agent_run" => agentRuns = 0
    /\ pc = "svc_new" => startCalls = 0
    /\ pc = "suite" => suiteCalls = 0

(* the experiment ended after a suite that failed: each of the three
   steps has been run, once *)
C26_Witness ==
    /\ pc = "exited"
    /\ agentRuns = 1 /\ startCalls = 1 /\ suiteCalls = 1
    /\ ~test_result.passed

(* C30: on the path through the suite, the crash flag (not is_running())
   and the exit code of the service are both sampled after the suite has
   returned and before ServiceManager.stop() is called; they are never
   sampled after stop(), where is_running() is always False and
   get_exit_code() always None *)
C30_SampledBeforeStop ==
    [][ /\ (service_crashed' # service_crashed
               \/ (pc = "sample_crash" /\ pc' = "sample_code")) =>
              /\ Idle /\ pc = "sample_crash"
              /\ suiteCalls = 1 /\ stopCalls = 0 /\ stopCalls' = 0
              /\ service_crashed' = ~is_running
        /\ (service_exit_code' # service_exit_code
               \/ (pc = "sample_code" /\ Idle /\ pc' = "stop_term")) =>
              /\ Idle /\ pc = "sample_code"
              /\ suiteCalls = 1 /\ stopCalls = 0
              /\ service_exit_code' = get_exit_code
              /\ stopCalls' = 1
        /\ stopDone' >= 1 => (~is_running' /\ get_exit_code' = NoCode)
      ]_vars

(* the service died during the suite: the crash and its exit code were
   sampled, stop() has returned since and the manager answers not
   running and no exit code *)
C30_Witness ==
    /\ suiteCalls = 1
    /\ stopDone = 1
    /\ service_crashed
    /\ service_exit_code # NoCode
    /\ ~is_running /\ get_exit_code = NoCode

(* the timestamps of a state that lie inside the window ending now *)
InWindow(state, config) ==
    Len(cleanup(state.timestamps, lnow - config.window_seconds))

(* C27 as stated: under a sliding-window config the units admitted for a
   key inside the current window never exceed max_requests, and a consume
   whose cost would exceed the limit returns allowed = false with
   remaining = 0 and leaves the recorded timestamps of the key unchanged *)
C27_RefusalKeepsTimestamps ==
    \A n \in Names, k \in Keys :
       LET state == states[<<n, k>>]
           config == configs[n]
       IN  config.algorithm = "sliding_window" =>
             /\ InWindow(state, config) <= config.max_requests
             /\ \A cost \in Costs :
                   InWindow(state, config) + cost > config.max_requests =>
                      LET r == consume(state, config, lnow, cost)
                      IN  /\ ~r.allowed
                          /\ r.remaining = 0
                          /\ r.state.timestamps = state.timestamps

(* C27, amended: ... and keeps the timestamps of the current window,
   the older ones being dropped by the cleanup that precedes the test *)
C27_RefusalKeepsWindow ==
    \A n \in Names, k \in Keys :
       LET state == states[<<n, k>>]
           config == configs[n]
       IN  config.algorithm = "sliding_window" =>
             /\ Len(state.timestamps) <= config.max_requests
             /\ InWindow(state, config) <= config.max_requests
             /\ \A cost \in Costs :
                   InWindow(state, config) + cost > config.max_requests =>
                      LET r == consume(state, config, lnow, cost)
                      IN  /\ ~r.allowed
                          /\ r.remaining = 0
                          /\ r.state.timestamps
                               = cleanup(state.timestamps,
                                         lnow - config.window_seconds)
                          /\ InWindow(r.state, config)
                               = InWindow(state, config)

(* a consume under the sliding-window config has just been refused for a
   key that holds a timestamp of the current window *)
C27_Witness ==
    /\ lres.op = "consume" /\ ~lres.allowed
    /\ configs[lres.name].algorithm = "sliding_window"
    /\ InWindow(states[<<lres.name, lres.key>>], configs[lres.name]) > 0
    /\ lnow > configs[lres.name].window_seconds

(* C28: check never consumes quota: after a check, at the same instant
   or later, any consume and any check of the key is answered, and leaves
   the key, exactly as it would have been without the check, and a check
   repeated at the same instant reports the same remaining *)
C28_CheckTakesNothing ==
    \A n \in Names, k \in Keys :
       LET state == states[<<n, k>>]
           config == configs[n]
           after == check(state, config, lnow, 1).state
       IN  /\ \A cost \in Costs :
                 LET checked == check(state, config, lnow, cost)
                 IN  /\ checked.state = after
                     /\ check(after, config, lnow, cost) = checked
           /\ \A t \in lnow..MaxTime, c \in Costs :
                 /\ consume(after, config, t, c)
                      = consume(state, config, t, c)
                 /\ check(after, config, t, c) = check(state, config, t, c)

(* a check has just been answered for a key whose quota was partly used *)
C28_Witness ==
    /\ lres.op = "check"
    /\ LET state == states[<<lres.name, lres.key>>]
           config == configs[lres.name]
       IN  \/ state.kind = "sliding_window" /\ InWindow(state, config) > 0
           \/ /\ state.kind = "token_bucket"
              /\ state.tokens < config.burst_size * config.window_seconds
              /\ state.tokens > 0

(* C29: the state is kept per (config name, key): a consume or a reset
   on one pair changes the state of no other key of the same config and
   of no key, the same one included, of another config *)
C29_IsolatedPerNameAndKey ==
    [][ (lcalls' # lcalls /\ lres'.op \in {"consume", "reset"}) =>
           \A s \in Names \X Keys :
               s # <<lres'.name, lres'.key>> => states'[s] = states[s]
      ]_vars

(* a consume was admitted for a key while the same key under the other
   config holds a state of its own *)
C29_Witness ==
    /\ lres.op = "consume" /\ lres.allowed
    /\ states[<<lres.name, lres.key>>].kind # "none"
    /\ \E n \in Names \ {lres.name} : states[<<n, lres.key>>].kind # "none"

(* ---------------- run_with_streaming: the output ---------------- *)

(* the places where the copies of the output are compared: the loop head of
   line 73, the drain's loop head of line 101 and the return *)
AtLoopOrReturn == rpc \in {"top", "dselect", "ret", "done"}

(* C31 as stated: at every loop iteration and at return the text written to
   the sink (sys.stdout), the content of agent.stdout.log and the combined
   output are the same sequence of chunks. *)
C31_ThreeCopiesEqual ==
    AtLoopOrReturn =>
        /\ sink.stdout = output_log
        /\ log_file = output_log
        /\ Returned => TheResult.stdout = output_log

(* C31: every chunk read from the terminal is forwarded in read order and
   before the next read to sys.stdout and to the log file: at every loop
   iteration and at return the log file and the combined output are the
   same sequence, and for a command that was found the text written to
   sys.stdout is that sequence too; the "Command not found" message of a
   missing command is in the log and the output but goes to sys.stderr. *)
C31_ChunksForwarded ==
    /\ [](AtLoopOrReturn =>
            /\ log_file = output_log
            /\ cmdFound => sink.stdout = output_log /\ sink.stderr = <<>>
            /\ ~cmdFound => sink.stdout = <<>> /\ sink.stderr = output_log
            /\ Returned => TheResult.stdout = output_log)
    /\ [][ output_log' # output_log /\ cmdFound =>
              /\ pty # <<>>
              /\ output_log' = Append(output_log, Head(pty))
              /\ pty' = Tail(pty)
          ]_vars

(* two different chunks were read and the call returned them in order *)
C31_Witness ==
    /\ Returned
    /\ cmdFound
    /\ Len(output_log) >= 2
    /\ output_log[1] # output_log[2]
    /\ log_file = output_log
    /\ sink.stdout = output_log

(* C32: on the timeout path the output that was readable on the terminal
   when the command was killed is drained into the combined output and the
   log before timed_out = true is returned: nothing that was written to
   the terminal before the kill is left unread at return. *)
C32_TimeoutDrains ==
    (Returned /\ TheResult.timed_out) =>
        /\ pty = <<>>
        /\ Len(TheResult.stdout) = written
        /\ Len(log_file) = written

(* C33: timed_out = true is reported only for a command that was still
   running when the deadline passed: a command that exited by itself while
   the elapsed time had not exceeded timeout_sec, the last select wait
   before the deadline included, is reported as a normal exit with its
   exit code. *)
C33_TimedOutOnlyIfRunning ==
    (Returned /\ proc = "exited" /\ exitAt <= timeout_sec) =>
        /\ ~TheResult.timed_out
        /\ TheResult.exit_code \in returncode

(* ---------------- ServiceManager.start without run.sh ---------------- *)

(* C34: when run.sh is missing, start() fails before any side effect: no
   process is launched and no log file is opened, afterwards is_running()
   is False and get_exit_code() is None, and a stop() that follows changes
   neither the manager nor any process. *)
C34_MissingScriptNoEffect ==
    /\ []((startCalls = 1 /\ ~runScript) =>
            /\ svcProcess = "None"
            /\ ~svcFiles
            /\ leader = "none" /\ child = "none"
            /\ ~is_running
            /\ get_exit_code = NoCode)
    /\ [][ (startCalls = 1 /\ ~runScript) => UNCHANGED <<mgrVars, envVars>>
          ]_vars

(* start() failed for a missing run.sh and a stop() after it has returned *)
C34_Witness ==
    /\ pc = "mgr_idle"
    /\ startCalls = 1 /\ ~runScript
    /\ stopDone >= 1
    /\ svcProcess = "None" /\ ~svcFiles

(* ---------------- the exit code of the experiment ---------------- *)

(* the status the process left as its last results.jsonl line, "none"
   when it recorded nothing *)
LastStatus == IF jsonl = <<>> THEN "none" ELSE jsonl[Len(jsonl)].status
LastSite == IF jsonl = <<>> THEN 0 ELSE jsonl[Len(jsonl)].site

(* orchestrate.py:198: the status shown for a completed experiment whose
   exit_code.txt holds the code c *)
ShownStatus(c) == IF c = 0 THEN "pass" ELSE "exit"

(* C35: the experiment process exits with code 0 exactly when the status
   it recorded is pass, with code 1 when it recorded fail, timeout or
   error as a verdict, and with 128 + signum only when a handled signal
   terminated it; so status() shows pass for a completed experiment
   exactly when the experiment recorded pass. *)
C35_ExitCodeMatchesStatus ==
    pc = "exited" =>
        \A c \in exitCode :
            /\ c = 0 <=> LastStatus = "pass"
            /\ (LastStatus \in {"fail", "timeout", "error"} /\ LastSite # 81)
                  => c = 1
            /\ c \notin {0, 1} =>
                  handled /\ \E signum \in Signums : c = 128 + signum
            /\ ShownStatus(c) = "pass" <=> LastStatus = "pass"

(* ---------------- start_experiment returning None ---------------- *)

(* C36: a call of start_experiment that returned None, refused at capacity
   or because tmux new-session failed, started no session and left no
   experiment entry: no meta.json exists for that launch and status() does
   not list it. The launches that failed at tmux new-session are those
   with a tmux_error.txt; a call refused at capacity generated no id. *)
C36_NoneLeavesNothing ==
    \A id \in errFiles :
        /\ id \notin launched
        /\ id \notin metaFiles
        /\ EntriesOf(st, id) = {}

(* ---------------- the sentinel and the exit code ---------------- *)

(* C37: whenever done.txt exists for an experiment, exit_code.txt exists
   too, because the EXIT trap writes the exit code before the sentinel; so
   status() never reports exit:? (code -1 here) for an experiment whose
   sentinel exists. *)
C37_CodeBeforeSentinel ==
    /\ doneFiles \subseteq HasExitFile
    /\ \A e \in st.completed :
          e.status \in {"pass", "exit"} =>
              /\ e.code # -1
              /\ <<e.exp_id, e.code>> \in exitFiles

(* status() listed an experiment whose session ended with a non-zero code
   and wrote both files *)
C37_Witness ==
    /\ st.pc = "returned"
    /\ \E e \in st.completed :
          /\ e.status = "exit" /\ e.code = 1
          /\ e.exp_id \in doneFiles
          /\ e.exp_id \notin tmuxSessions

(* ---------------- stop_all ---------------- *)

(* C38: stop_all sends a kill to every live session whose name starts
   with bench_ and to no other session, and it changes no file of any
   experiment directory: the sessions it lists are exactly the live bench_
   sessions, each step of it removes at most a listed session, and it
   returns only when a kill was sent to each of them. *)
C38_StopAllKillsBenchOnly ==
    /\ [](/\ stop.sent \subseteq stop.active
          /\ \A n \in stop.active : n.prefix = "bench_"
          /\ \A n \in stop.sent : n.id \notin tmuxSessions
          /\ stop.pc = "done" => stop.sent = stop.active)
    /\ [][ stop' # stop =>
              /\ UNCHANGED <<metaFiles, metaText, errFiles, exitFiles,
                             doneFiles>>
              /\ others' = others
              /\ tmuxSessions' \subseteq tmuxSessions
              /\ \A id \in tmuxSessions \ tmuxSessions' :
                    SessionName("bench_", id) \in stop.active
              /\ stop.pc # "kill" =>
                    stop'.active =
                        {SessionName("bench_", i) : i \in tmuxSessions}
          ]_vars

(* stop_all returned after killing two experiments, one of which had
   written its exit code, while a session that is not an experiment
   stayed alive *)
C38_Witness ==
    /\ stop.pc = "done"
    /\ Cardinality(stop.sent) = 2
    /\ tmuxSessions = {}
    /\ others # {}
    /\ exitFiles # {}
    /\ doneFiles = {}

(* ---------------- the two copies of the verdict ---------------- *)

(* C39: after the experiment process has ended, the status in result.json
   equals the status of the last results.jsonl line of the run, also when
   a termination signal interrupted save_run_result between its two
   writes. *)
C39_CopiesAgree ==
    pc = "exited" =>
        IF resultJson = <<>>
        THEN jsonl = <<>>
        ELSE /\ jsonl # <<>>
             /\ resultJson[1].status = LastStatus
             /\ resultJson[1] = jsonl[Len(jsonl)]

(* ---------------- the token bucket ---------------- *)

(* C40: under a token-bucket config the token count of every key stays
   within 0 and burst_size after any sequence of check and consume calls
   at non-decreasing times; a consume whose cost is larger than the
   tokens the key has returns allowed = false and removes no tokens; a
   new key starts with exactly burst_size tokens. *)
C40_TokensWithinBurst ==
    \A name \in Names, key \in Keys :
        LET config == configs[name]
            state == states[WhereKept(name, key)]
            full == config.burst_size * config.window_seconds
            st1 == BucketState(state, config, lnow)
        IN  config.algorithm = "token_bucket" =>
              /\ state.kind = "token_bucket" => state.tokens \in 0..full
              /\ state.kind = "none" =>
                    /\ st1.tokens = full
                    /\ \A cost \in Costs :
                          check(state, config, lnow, cost).state.tokens = full
              /\ \A cost \in Costs :
                    LET r == consume(state, config, lnow, cost)
                    IN  cost * config.window_seconds > st1.tokens =>
                            /\ ~r.allowed
                            /\ r.state.tokens = st1.tokens

====
